---- MODULE Spec2Model ----
(***************************************************************************)
(* A model of the concurrent core of the bingo game server: the phase      *)
(* cell, the ball registry, the subscriptions manager, the command loop,   *)
(* the card registry and JoinGame / leaveGame.                             *)
(*                                                                         *)
(* Each component has its own specification (SpecPhase, SpecBall, ...) over *)
(* the one set of variables below; a specification holds the variables of  *)
(* the other components at their initial values.                           *)
(***************************************************************************)
EXTENDS Integers, Sequences, FiniteSets, TLC

VARIABLES
    \* ---- phase cell (src/game/phase.go)
    p_value,        \* phase._value
    rwmtx,          \* phase.rwmtx: 0 when free, else the goroutine holding it
    phasePc,        \* per goroutine: "idle" | "locked" (inside setValue)
    phaseArg,       \* per goroutine: the newValue of its setValue call
    phaseErr,       \* per goroutine: result of its last setValue: "none" | "nil" | "err"
    phaseCalls,     \* number of setValue calls started so far
    \* ---- ball registry (src/game/ballregistry.go)
    called,         \* ballRegistry.called
    uncalled,       \* ballRegistry.uncalled
    ballResult,     \* the last operation and what it returned
    drawn,          \* balls drawn since construction or the last Reset
    freshUncalled,  \* uncalled as newBallRegistry left it
    shufflerDraws,  \* rng.Intn calls made on the registry's shuffler so far
    \* ---- subscriptions manager (src/unnamed/part_010, lines 53-315)
    subs,                   \* sm.subs: sequence of subscription entries
    sm_mtx,                 \* sm.mtx: 0 when free, 1 while dispatchEvent holds it
    routineBuffer,          \* tokens left in sm.routineBuffer
    eventChan,              \* per subscription id: the buffered content of its eventChan
    chanClosed,             \* per subscription id: number of close(eventChan) executed
    subscribed,             \* per subscription id: the closure's subscribed flag
    recv,                   \* per subscription id: the events its consumer has read
    subCount,               \* subscribe calls so far (the next id is subCount + 1)
    eventCount,             \* dispatchEvent calls so far
    dEvent,                 \* the event of the dispatch in progress
    maxBroadcasts,          \* dispatchUnsafe's local maxBroadcasts
    successfulBroadcasts,   \* dispatchUnsafe's local, shared by its goroutines
    gPc,                    \* per subscription id: position of its sender goroutine
    gLoaded,                \* per subscription id: the value its goroutine loaded for ++
    dTimedOut,              \* ids whose send timed out in the dispatch in progress
    dispatchLog,            \* one record per finished dispatchEvent call
    \* ---- Game.Command and the command loop (src/game/game.go)
    g_mtx,          \* Game.mtx: 0 when free, else the goroutine holding it
    g_phase,        \* Game.phase
    cmdPc,          \* per caller: "idle" | "send" | "wait" | "received"
    cmdSession,     \* per caller: the commandSession of its call
    cmdErr,         \* per caller: the err it read from its errorChan
    cmdResult,      \* per caller: what its last Command call returned
    cmdCount,       \* Command calls so far
    loopPc,         \* the loop goroutine: "range" | "process" | "reply"
    loopSession,    \* the loop's session variable
    loopErr,        \* the loop's err variable
    accepted,       \* ids of the commands sent to the loop, in order
    handled,        \* ids of the commands whose handler has finished, in order
    returned,       \* ids of the accepted commands whose Command call returned
    \* ---- card registry (src/unnamed/part_002)
    status,             \* cg.status
    statusMtx,          \* cg.statusMtx: 0 when free, 1 while Start holds the write lock
    registeredEntries,  \* cg.registeredEntries
    entriesMtx,         \* cg.entriesMtx: 0 when free, else the goroutine holding it
    returnChan,         \* the buffered content of cg.returnChan (card IDs)
    entryCount,         \* entries created so far (the next entry ID is entryCount + 1)
    startPc,            \* the Start call: "idle" | "equalize" | "returned" | "error"
    eqPc,               \* equalizeEntrySurplus: "off" | "test" | "count" | "gen" | "prune"
    eqMode,             \* who called equalizeEntrySurplus: "none" | "start" | "tick"
    availableCards,     \* equalizeEntrySurplus's local availableCards
    wPc,                \* the worker: "off" | "select" | "flush" | "equalize"
    wCard,              \* the worker's returnedCard (its ID)
    tickCount,          \* ticks of surplusTicker consumed so far
    genPc,              \* per goroutine, generateUniqueEntry: "none" | "lock" | "loop" | "append"
    genCells,           \* per goroutine: generateUniqueEntry's newCells
    coPc,               \* per caller, CheckOutCard: "idle" | "count" | "recycle" | "gen" | "activate"
    coPlayer,           \* per caller: the playerID of its call
    coEntry,            \* per caller: the ID of its activeEntry
    coResult,           \* per caller: what its last CheckOutCard returned
    coCount,            \* CheckOutCard calls so far
    heldCards,          \* <<card ID, player ID>> of the cards handed out and not returned
    \* ---- Game.JoinGame and the leaveGame closures (src/game/game.go)
    cardPlayerEntries,  \* g.cardPlayerEntries: the roster
    bannedPlayerIDs,    \* g.bannedPlayerIDs
    playerEntryCount,   \* player entries created so far
    closurePlayerID,    \* per player entry: the playerID its leaveGame closure captured
    playerChanClosed,   \* per player entry: close() calls executed on its eventChan
    leaveInvocations,   \* per player entry: invocations of its leaveGame closure
    joinPc,             \* per caller: "idle" | "checkout" | "await" | "returning" | "panic"
    joinPlayer,         \* per caller: the playerID of its JoinGame call
    joinCards,          \* per caller: JoinGame's cards so far
    joinClosure,        \* per caller: the player entry whose leaveGame it runs
    joinRemaining,      \* per caller: cards leaveGame has still to return
    joinResult,         \* per caller: what its last JoinGame returned
    joinCalls,          \* JoinGame calls so far
    leaveCalls,         \* leaveGame invocations so far
    \* ---- the dispose closure of New (src/game/game.go, lines 134-142)
    commandChanClosed,  \* close(game.commandChan) has been executed
    gameDisposed,       \* the closure's disposed flag
    cleanupCalled,      \* calls of terminateCardRegistry
    \* ---- subscriptions manager: dispose (src/unnamed/part_010, lines 101-112, 255-292)
    disposedChanClosed, \* number of close(sm.disposedChan) executed
    dMode,              \* who runs dispatchUnsafe or holds sm.mtx after it:
                        \* "none" | "event" | "dispose" | "drain" | "panic"
    dPending,           \* dispatchUnsafe's loop: the eligible subscriptions not yet started
    disposeCalls,       \* dispose calls so far
    disposeReturns,     \* dispose calls that have returned
    \* ---- subscriptions.Manager (src/subscriptions/subscriptions.go)
    mSubs,              \* sm.subs
    mNextID,            \* the id of the next subscription
    mSubscribed,        \* per subscription id: the closure's subscribed flag
    mChanCloses,        \* per subscription id: number of close(eventChan) executed
    mDisposedCloses,    \* number of close(sm.disposedChan) executed
    mRoutineBuffer,     \* tokens in sm.routineBuffer
    mPanic,             \* a close of a closed channel has panicked
    subPc,              \* per caller of Subscribe: "idle" | "lock"
    subArg,             \* per caller of Subscribe: its recipientIDs
    unsubPc,            \* per caller of an unsubscribe closure: "idle" | "lock"
    unsubTarget,        \* per caller: the subscription whose closure it runs
    unsubCalls,         \* invocations of unsubscribe closures by callers so far
    unsubReturned,      \* per subscription id: an invocation of its closure has returned
    mdPc,               \* Dispose: "idle" | "dispatch" | "close" | "unsub" | "unsubLock" | "drain"
    mdCopy,             \* Dispose's subsCopy: the ids still to unsubscribe
    mdCalls,            \* Dispose calls so far
    mdReturns,          \* Dispose calls that have returned
    mdErr,              \* Dispose's err
    \* ---- cellsGenerator.generateCells (src/game/cellsgenerator.go)
    cgDraws,            \* per column: the draws its shuffle got from the generator
    cgGrid,             \* the grid of the last generateCells call, << >> before it
    \* ---- command handlers (src/unnamed/part_008, src/game/commands_host.go)
    cardPlayers,        \* game.cardPlayers: the roster, each player with their cards
    hPc,                \* the goroutine that runs a handler: "idle" | "dispatch"
    hCall,              \* the handler call in progress, or the last one
    hCalls,             \* handler calls so far
    hEvents,            \* the events the handlers have passed to dispatchEvent
    \* ---- card registry, Start by several callers and termination (src/unnamed/part_002)
    stPc,               \* per caller of Start: "idle" | "lock" | "equalize"
    stResult,           \* per caller of Start: "none" | "cleanup" | "error", its last return
    stCalls,            \* Start calls so far
    workerPc,           \* per worker goroutine launched: "select" | "exit" | "terminated" | "panic"
    returnChanCloses,   \* number of close(cg.returnChan) executed
    cleanupCalls,       \* calls of cleanup callbacks so far
    callsAtExit,        \* the CheckOutCard and ReturnCard calls made before the first worker exit
    rcPc,               \* per caller of ReturnCard: "idle" | "send" | "panic"
    rcCard,             \* per caller of ReturnCard: the card it returns
    rcResult,           \* per caller of ReturnCard: its last result and the status it read
    rcCalls,            \* ReturnCard calls so far
    \* ---- processHandReplacement (src/unnamed/part_008)
    hrPc,               \* the handler: "idle" | "return" | "checkout" | "await" | "dispatch" | "dispatching"
    hrPlayer,           \* playerID of the running call
    hrRemaining,        \* the cards of the hand not yet passed to ReturnCard
    hrIter,             \* i of the checkout loop
    hrErrs,             \* len(errs)
    hrBefore,           \* the player's hand when the running or last call began
    hrResult,           \* the last return of the handler
    hrCalls,            \* calls of the handler so far
    \* ---- locks of subscriptionsManager (src/game/subscriptionsmanager.go), Game and CardRegistry.Status
    smMtx,              \* sm.mtx of the subscriptionsManager: 0 or the goroutine that locked it
    smSubs,             \* sm.subs: per phase that is a key, the number of subscribed channels
    lkPc,               \* per goroutine: "idle" | "broadcast" | "relock" | "relockGame" | "fatal"
    lkCopy,             \* per goroutine: len(subsCopy) of its dispatchEvent
    lkResult,           \* per goroutine: the last return, "none" | "nil" | "err"
    lkCalls             \* operations begun so far

phaseVars == <<p_value, rwmtx, phasePc, phaseArg, phaseErr, phaseCalls>>
ballVars  == <<called, uncalled, ballResult, drawn, freshUncalled, shufflerDraws>>

subVars   == <<subs, sm_mtx, routineBuffer, eventChan, chanClosed, subscribed, recv,
               subCount, eventCount, dEvent, maxBroadcasts, successfulBroadcasts,
               gPc, gLoaded, dTimedOut, dispatchLog>>

cmdVars   == <<g_mtx, g_phase, cmdPc, cmdSession, cmdErr, cmdResult, cmdCount, loopPc,
               loopSession, loopErr, accepted, handled, returned>>

cardVars  == <<status, statusMtx, registeredEntries, entriesMtx, returnChan, entryCount,
               startPc, eqPc, eqMode, availableCards, wPc, wCard, tickCount, genPc,
               genCells, coPc, coPlayer, coEntry, coResult, coCount, heldCards>>

joinVars  == <<cardPlayerEntries, bannedPlayerIDs, playerEntryCount, closurePlayerID,
               playerChanClosed, leaveInvocations, joinPc, joinPlayer, joinCards,
               joinClosure, joinRemaining, joinResult, joinCalls, leaveCalls>>

dispVars  == <<commandChanClosed, gameDisposed, cleanupCalled>>

smVars    == <<disposedChanClosed, dMode, dPending, disposeCalls, disposeReturns>>

mgrVars   == <<mSubs, mNextID, mSubscribed, mChanCloses, mDisposedCloses,
               mRoutineBuffer, mPanic, subPc, subArg, unsubPc, unsubTarget,
               unsubCalls, unsubReturned, mdPc, mdCopy, mdCalls, mdReturns, mdErr>>

cellVars  == <<cgDraws, cgGrid>>

playVars  == <<cardPlayers, hPc, hCall, hCalls, hEvents>>

lifeVars  == <<stPc, stResult, stCalls, workerPc, returnChanCloses, cleanupCalls, callsAtExit, rcPc, rcCard, rcResult, rcCalls>>

replVars  == <<hrPc, hrPlayer, hrRemaining, hrIter, hrErrs, hrBefore, hrResult, hrCalls>>

lockVars  == <<smMtx, smSubs, lkPc, lkCopy, lkResult, lkCalls>>

vars == <<phaseVars, ballVars, subVars, cmdVars, cardVars, joinVars, dispVars, smVars,
          mgrVars,
          cellVars,
          playVars,
          lifeVars,
          replVars,
          lockVars>>

\* The variables of the command loop without g.mtx and g.phase.
cmdOnlyVars == <<cmdPc, cmdSession, cmdErr, cmdResult, cmdCount, loopPc, loopSession,
                 loopErr, accepted, handled, returned>>

\* What the actions of one component leave alone.
exceptPhase == <<ballVars, subVars, cmdVars, cardVars, joinVars, dispVars, smVars, mgrVars,
                 cellVars,
                 playVars,
                 lifeVars,
                 replVars,
                 lockVars>>
exceptBall  == <<phaseVars, subVars, cmdVars, cardVars, joinVars, dispVars, smVars, mgrVars,
                 cellVars,
                 playVars,
                 lifeVars,
                 replVars,
                 lockVars>>
exceptSub   == <<phaseVars, ballVars, cmdVars, cardVars, joinVars, dispVars,
                 mgrVars,
                 cellVars,
                 playVars,
                 lifeVars,
                 replVars,
                 lockVars>>
\* The same, for the actions of the manager that leave dispose's variables alone.
exceptDispatch == <<exceptSub, smVars>>
exceptCmd   == <<phaseVars, ballVars, subVars, cardVars, joinVars, dispVars, smVars, mgrVars,
                 cellVars,
                 playVars,
                 lifeVars,
                 replVars,
                 lockVars>>
exceptCard  == <<phaseVars, ballVars, subVars, cmdVars, joinVars, dispVars, smVars, mgrVars,
                 cellVars,
                 playVars,
                 lifeVars,
                 replVars,
                 lockVars>>
exceptJoin  == <<phaseVars, ballVars, subVars, cmdOnlyVars, dispVars, smVars, mgrVars,
                 cellVars,
                 playVars,
                 lifeVars,
                 replVars,
                 lockVars>>
\* What a command handler leaves alone besides the command loop and the closure.
exceptHandler == <<phaseVars, ballVars, subVars, cardVars, joinVars, smVars, mgrVars,
                 cellVars,
                 playVars,
                 lifeVars,
                 replVars,
                 lockVars>>
\* What the actions of subscriptions.Manager leave alone.
exceptMgr   == <<phaseVars, ballVars, subVars, cmdVars, cardVars, joinVars, dispVars, smVars,
                 cellVars,
                 playVars,
                 lifeVars,
                 replVars,
                 lockVars>>

\* What generateCells leaves alone.
exceptCells == <<phaseVars, ballVars, subVars, cmdVars, cardVars, joinVars, dispVars, smVars, mgrVars,
                 playVars,
                 lifeVars,
                 replVars,
                 lockVars>>

\* What the daub handlers leave alone: all but the roster and the
\* subscriptions manager.
exceptDaub  == <<phaseVars, ballVars, cmdVars, cardVars, joinVars, dispVars, mgrVars,
                 cellVars,
                 lifeVars,
                 replVars,
                 lockVars>>
\* What processAutomaticBall leaves alone: all but g.mtx, the ball registry
\* and the subscriptions manager.
exceptHostBall == <<phaseVars, g_phase, cmdOnlyVars, cardVars, joinVars, dispVars, mgrVars,
                 cellVars,
                 lifeVars,
                 replVars,
                 lockVars>>

\* What the lifecycle of the card registry leaves alone besides the registry.
exceptLife  == <<phaseVars, ballVars, subVars, cmdVars, joinVars, dispVars, smVars,
                 mgrVars, cellVars, playVars,
                 replVars,
                 lockVars>>

\* What processHandReplacement leaves alone besides the game's lock, roster, card registry and subscriptions manager.
exceptRepl == <<phaseVars, ballVars, g_phase, cmdOnlyVars, dispVars, mgrVars, cellVars,
                lifeVars,
                 lockVars>>

\* What the operations on the subscriptionsManager's lock leave alone.
exceptLock == <<phaseVars, ballVars, subVars, cmdVars, cardVars, joinVars, dispVars, smVars, mgrVars, cellVars, playVars, lifeVars, replVars>>

(***************************************************************************)
(* Bounds of the model                                                     *)
(***************************************************************************)
\* goroutines that call phase.setValue concurrently
NumPhaseThreads == 2
\* setValue calls in one behaviour
MaxPhaseCalls == 4
\* the ball registry holds the balls 1..NumBalls (the program: 1..75)
NumBalls == 4
\* subscribe calls in one behaviour
MaxSubs == 2
\* dispatchEvent calls in one behaviour
MaxDispatches == 2
\* goroutines that call Game.Command concurrently
NumCmdThreads == 2
\* Command calls in one behaviour
MaxCommands == 3
\* goroutines that call CheckOutCard concurrently
NumCardThreads == 2
\* CheckOutCard calls in one behaviour
MaxCheckouts == 3
\* ticks of the surplus ticker in one behaviour
MaxTicks == 1
\* grids the cells generator draws from
NumCandidates == 4
\* cards per player (the program: 6)
MaxCards == 2
\* inactive entries the equalization aims at (the program: 6 * MaxCards)
minEntrySurplus == 1
\* inactive entries from which the equalization prunes (the program: 20 * MaxCards)
maxEntrySurplus == 2
\* JoinGame calls in one behaviour
MaxJoins == 2
\* leaveGame invocations in one behaviour
MaxLeaves == 2
\* dispose calls on the subscriptions manager in one behaviour
MaxDisposes == 2
\* Reset calls on the ball registry in one behaviour
MaxResets == 2
\* processHandReplacement calls in one behaviour
MaxReplaces == 1
\* goroutines that call the subscriptionsManager, Game.SubscribeToAllEvents and Status
NumLockThreads == 2
\* calls made by those goroutines
MaxLockCalls == 3
\* Start calls on the card registry in one behaviour
MaxStarts == 2
\* calls of the cleanup callbacks Start returned
MaxCleanups == 2
\* ReturnCard calls made together with Start and cleanup
MaxReturns == 2
\* calls of command handlers in one behaviour
MaxHandlerCalls == 2
\* families of draws a shuffle of generateCells can get
NumDrawFamilies == 3
\* goroutines calling Subscribe and unsubscribe closures of a Manager
NumMgrThreads == 2
\* subscriptions made on the Manager
MaxMgrSubs == 2
\* invocations of unsubscribe closures by callers
MaxUnsubCalls == 3
\* calls of Manager.Dispose
MaxMgrDisposes == 2

(***************************************************************************)
(* Game phases (src/bingo.go)                                              *)
(***************************************************************************)
GamePhaseInitialized           == "initialized"
GamePhaseInitializationFailure == "initialization_failure"
GamePhaseRoundStart            == "round_start"
GamePhaseCalling               == "calling"
GamePhaseConfirmingBingo       == "confirming_bingo"
GamePhaseTiebreaker            == "tiebreaker"
GamePhaseRoundEnd              == "round_end"
GamePhaseGameOver              == "game_over"

AllGamePhases ==
    { GamePhaseInitialized, GamePhaseInitializationFailure, GamePhaseRoundStart,
      GamePhaseCalling, GamePhaseConfirmingBingo, GamePhaseTiebreaker,
      GamePhaseRoundEnd, GamePhaseGameOver }

\* The phases the specification calls terminal (used by the claims only).
TerminalPhases == { GamePhaseGameOver, GamePhaseInitializationFailure }

(***************************************************************************)
(* Initial values of each component                                        *)
(***************************************************************************)
PhaseThreads == 1..NumPhaseThreads

\* newPhase()
PhaseInit ==
    /\ p_value = GamePhaseInitialized
    /\ rwmtx = 0
    /\ phasePc = [t \in PhaseThreads |-> "idle"]
    /\ phaseArg = [t \in PhaseThreads |-> GamePhaseInitialized]
    /\ phaseErr = [t \in PhaseThreads |-> "none"]
    /\ phaseCalls = 0

(***************************************************************************)
(* Shuffler and ball registry                                              *)
(***************************************************************************)
\* generateBingoBallsForRange(start, end): the balls start..end, or the nil
\* slice when the bounds are invalid.
generateBingoBallsForRange(start, end) ==
    IF end <= start \/ start <= 0 \/ end <= 0 \/ start > NumBalls \/ end > NumBalls
    THEN << >>
    ELSE [k \in 1..(end - start + 1) |-> start + k - 1]

\* The slice s with the elements at the 0-based indexes i and r swapped.
SwapAt(s, i, r) ==
    [k \in 1..Len(s) |-> IF k = i + 1 THEN s[r + 1]
                         ELSE IF k = r + 1 THEN s[i + 1]
                         ELSE s[k]]

\* shuffleBalls: for i from len-1 down to 1, swap element i with the element
\* at rng.Intn(i+1).  The generator's draws are not modelled: every draw in
\* 0..i is possible, so the operator is the set of slices the loop, started
\* at index i, can end with.
RECURSIVE shuffleFrom(_, _)
shuffleFrom(balls, i) ==
    IF i < 1 THEN { balls }
    ELSE UNION { shuffleFrom(SwapAt(balls, i, randomIndex), i - 1) :
                   randomIndex \in 0..i }

shuffleBalls(balls) == shuffleFrom(balls, Len(balls) - 1)

\* newBallRegistry(rngSeed)
BallInit ==
    /\ called = << >>
    /\ uncalled \in shuffleBalls(generateBingoBallsForRange(1, NumBalls))
    /\ ballResult = [op |-> "new", ball |-> 0, err |-> FALSE]
    /\ drawn = 0
    /\ freshUncalled = uncalled
    /\ shufflerDraws = NumBalls - 1

\* The ball registry of a specification that does not use it.
BallIdle ==
    /\ called = << >>
    /\ uncalled = generateBingoBallsForRange(1, NumBalls)
    /\ ballResult = [op |-> "new", ball |-> 0, err |-> FALSE]
    /\ drawn = 0
    /\ freshUncalled = uncalled
    /\ shufflerDraws = 0

(***************************************************************************)
(* Subscriptions manager: construction                                     *)
(***************************************************************************)
maxSubscriberGoroutines == 100

\* make(chan bingo.GameEvent, 1) in subscribe
eventChanCap == 1

SubIDs    == 1..MaxSubs
PlayerIDs == { "p1", "p2" }

\* The filters and events the model draws from.
PhaseFilters     == { {}, { GamePhaseCalling } }
RecipientFilters == { {}, { "p1" } }
EventPhases      == { GamePhaseCalling, GamePhaseRoundStart }
EventRecipients  == { {}, { "p1" }, { "p2" } }

NoEvent == [ID |-> 0, Phase |-> GamePhaseInitialized, RecipientIDs |-> {}]

\* newSubscriptionsManager()
SubInit ==
    /\ subs = << >>
    /\ sm_mtx = 0
    /\ routineBuffer = maxSubscriberGoroutines
    /\ eventChan = [id \in SubIDs |-> << >>]
    /\ chanClosed = [id \in SubIDs |-> 0]
    /\ subscribed = [id \in SubIDs |-> FALSE]
    /\ recv = [id \in SubIDs |-> << >>]
    /\ subCount = 0
    /\ eventCount = 0
    /\ dEvent = NoEvent
    /\ maxBroadcasts = 0
    /\ successfulBroadcasts = 0
    /\ gPc = [id \in SubIDs |-> "none"]
    /\ gLoaded = [id \in SubIDs |-> 0]
    /\ dTimedOut = {}
    /\ dispatchLog = << >>
    /\ disposedChanClosed = 0
    /\ dMode = "none"
    /\ dPending = << >>
    /\ disposeCalls = 0
    /\ disposeReturns = 0

(***************************************************************************)
(* Game: construction of the fields used by Command                        *)
(***************************************************************************)
CmdThreads == 1..NumCmdThreads

\* The command types the callers draw from (bingo.GameCommand.Type).
CommandTypes == { "player_daub", "host_request_ball" }

\* init.systemID and an ID that is not the system's, as bingo.GameCommand.CommanderID
Commanders == { "system", "p1" }

NoSession == [id |-> 0, type |-> "none", commander |-> "none", errorChan |-> 0]

\* New: the game fields used by Command, and the loop goroutine at its range
CmdInit ==
    /\ g_mtx = 0
    /\ g_phase = GamePhaseInitialized
    /\ cmdPc = [t \in CmdThreads |-> "idle"]
    /\ cmdSession = [t \in CmdThreads |-> NoSession]
    /\ cmdErr = [t \in CmdThreads |-> "none"]
    /\ cmdResult = [t \in CmdThreads |-> "none"]
    /\ cmdCount = 0
    /\ loopPc = "range"
    /\ loopSession = NoSession
    /\ loopErr = "none"
    /\ accepted = << >>
    /\ handled = << >>
    /\ returned = {}
    /\ commandChanClosed = FALSE
    /\ gameDisposed = FALSE
    /\ cleanupCalled = 0

(***************************************************************************)
(* Card registry (src/unnamed/part_002, lines 1-309) and the cells         *)
(* generator (src/unnamed/part_003, lines 1-65)                            *)
(***************************************************************************)
uniquenessThreshold == 16

cardGenStatusIdle       == "idle"
cardGenStatusRunning    == "running"
cardGenStatusTerminated == "terminated"

\* make(chan *bingo.BingoCard, 1) in NewCardRegistry
returnChanCap == 1

\* aggregateCells[2][2] = -1 in generateCells
freeSpaceCell == 0 - 1

CardThreads == 1..NumCardThreads

\* The goroutine that runs equalizeEntrySurplus (Start's caller, then the
\* worker), as a holder of entriesMtx.
WorkerID == NumCardThreads + 1

Generators == CardThreads \cup { WorkerID }

\* A grid as generateCells lays it out: row i, column j holds a value of
\* 15j+1..15j+15 (i, j from 0), the centre holds the free space.  The rows
\* above sameRows take the i-th value of the column, the others the value
\* shift places further on.
Card(shift, sameRows) ==
    [i \in 1..5 |-> [j \in 1..5 |->
        IF i = 3 /\ j = 3 THEN freeSpaceCell
        ELSE 15 * (j - 1) + 1 + (((i - 1) + (IF i - 1 < sameRows THEN 0 ELSE shift)) % 15)]]

\* The draws of the generator are restricted to the first NumCandidates of
\* these grids: some share no cell, some share 10, 14 or 19 cells.
CandidateParams ==
    << <<0, 0>>, <<5, 4>>, <<5, 2>>, <<5, 0>>, <<1, 0>>, <<2, 0>>, <<3, 0>>, <<4, 0>> >>

\* generateCells(): the grids it can return
generateCells ==
    { Card(CandidateParams[k][1], CandidateParams[k][2]) :
        k \in 1..(IF NumCandidates < Len(CandidateParams)
                  THEN NumCandidates ELSE Len(CandidateParams)) }

\* NewCardRegistry(rngSeed), with nobody inside any method
CardInit ==
    /\ status = cardGenStatusIdle
    /\ statusMtx = 0
    /\ registeredEntries = << >>
    /\ entriesMtx = 0
    /\ returnChan = << >>
    /\ entryCount = 0
    /\ startPc = "idle"
    /\ eqPc = "off"
    /\ eqMode = "none"
    /\ availableCards = 0
    /\ wPc = "off"
    /\ wCard = 0
    /\ tickCount = 0
    /\ genPc = [g \in Generators |-> "none"]
    /\ genCells = [g \in Generators |-> << >>]
    /\ coPc = [t \in CardThreads |-> "idle"]
    /\ coPlayer = [t \in CardThreads |-> "p1"]
    /\ coEntry = [t \in CardThreads |-> 0]
    /\ coResult = [t \in CardThreads |-> [card |-> 0, err |-> FALSE]]
    /\ coCount = 0
    /\ heldCards = {}

(***************************************************************************)
(* Game: construction of the roster (src/game/game.go)                     *)
(***************************************************************************)
\* init.hostID and init.systemID
hostID   == "host"
systemID == "system"

\* The player host_ban_player is called for.
BannablePlayerIDs == { "p2" }

\* The IDs a JoinGame caller passes.
JoinIDs == PlayerIDs \cup { hostID, systemID }

\* The goroutines that call JoinGame and leaveGame; each is a caller of
\* CheckOutCard while inside JoinGame.
JoinThreads == CardThreads

PlayerEntryIDs == 1..MaxJoins

\* New: the roster fields, with nobody inside JoinGame or leaveGame
JoinInit ==
    /\ cardPlayerEntries = << >>
    /\ bannedPlayerIDs = {}
    /\ playerEntryCount = 0
    /\ closurePlayerID = [e \in PlayerEntryIDs |-> "none"]
    /\ playerChanClosed = [e \in PlayerEntryIDs |-> 0]
    /\ leaveInvocations = [e \in PlayerEntryIDs |-> 0]
    /\ joinPc = [t \in JoinThreads |-> "idle"]
    /\ joinPlayer = [t \in JoinThreads |-> "none"]
    /\ joinCards = [t \in JoinThreads |-> << >>]
    /\ joinClosure = [t \in JoinThreads |-> 0]
    /\ joinRemaining = [t \in JoinThreads |-> << >>]
    /\ joinResult = [t \in JoinThreads |-> [err |-> FALSE, entry |-> 0]]
    /\ joinCalls = 0
    /\ leaveCalls = 0

(***************************************************************************)
(* subscriptions.Manager: New (src/subscriptions/subscriptions.go)         *)
(***************************************************************************)
MgrThreads == 1..NumMgrThreads
MgrSubIDs  == 1..MaxMgrSubs

\* New: no subscriptions, a full routineBuffer, disposedChan open
MgrInit ==
    /\ mSubs = << >>
    /\ mNextID = 1
    /\ mSubscribed = [id \in MgrSubIDs |-> FALSE]
    /\ mChanCloses = [id \in MgrSubIDs |-> 0]
    /\ mDisposedCloses = 0
    /\ mRoutineBuffer = maxSubscriberGoroutines
    /\ mPanic = FALSE
    /\ subPc = [t \in MgrThreads |-> "idle"]
    /\ subArg = [t \in MgrThreads |-> {}]
    /\ unsubPc = [k \in MgrThreads |-> "idle"]
    /\ unsubTarget = [k \in MgrThreads |-> 0]
    /\ unsubCalls = 0
    /\ unsubReturned = [id \in MgrSubIDs |-> FALSE]
    /\ mdPc = "idle"
    /\ mdCopy = << >>
    /\ mdCalls = 0
    /\ mdReturns = 0
    /\ mdErr = "none"

(***************************************************************************)
(* cellsGenerator: values of package bingo and the state before a call     *)
(***************************************************************************)
\* bingo.MaxBallValue
MaxBallValue == 75

\* bingo.FreeSpace
FreeSpace == 0

\* The families of draws the shuffles of the model can get.
DrawFamilies == 1..NumDrawFamilies

\* No grid generated yet.
CellsInit ==
    /\ cgDraws = << >>
    /\ cgGrid = << >>

(***************************************************************************)
(* Command handlers: the roster and the goroutine that runs the handlers   *)
(***************************************************************************)
\* bingo.EventTypeUpdate, bingo.EventTypeError (src/events.go)
EventTypeUpdate == "update"
EventTypeError  == "error"

\* The holder of g.mtx when it is the goroutine that runs the handlers.
HandlerID == NumCmdThreads + 1

NoCall == [n |-> 0, handler |-> "none", commander |-> "none", payloadOk |-> TRUE,
           cardID |-> 0, value |-> 0, err |-> FALSE]

\* A game nobody has joined, with no handler running.
PlayIdle ==
    /\ cardPlayers = << >>
    /\ hPc = "idle"
    /\ hCall = NoCall
    /\ hCalls = 0
    /\ hEvents = << >>

(***************************************************************************)
(* Card registry: the callers of Start, the workers and ReturnCard         *)
(***************************************************************************)
\* NewCardRegistry(rngSeed): nobody has called Start, no worker runs
LifeInit ==
    /\ stPc = [t \in CardThreads |-> "idle"]
    /\ stResult = [t \in CardThreads |-> "none"]
    /\ stCalls = 0
    /\ workerPc = << >>
    /\ returnChanCloses = 0
    /\ cleanupCalls = 0
    /\ callsAtExit = [co |-> 0, rc |-> 0]
    /\ rcPc = [t \in CardThreads |-> "idle"]
    /\ rcCard = [t \in CardThreads |-> 0]
    /\ rcResult = [t \in CardThreads |-> [err |-> FALSE, status |-> "none"]]
    /\ rcCalls = 0

(***************************************************************************)
(* processHandReplacement: no call has been made                           *)
(***************************************************************************)
ReplInit ==
    /\ hrPc = "idle"
    /\ hrPlayer = "none"
    /\ hrRemaining = << >>
    /\ hrIter = 0
    /\ hrErrs = 0
    /\ hrBefore = << >>
    /\ hrResult = [n |-> 0, err |-> FALSE]
    /\ hrCalls = 0

\* newSubscriptionsManager: one key per game phase with no subscriber, the
\* mutex unlocked; no call is running.
LockInit ==
    /\ smMtx = 0
    /\ smSubs = [gp \in AllGamePhases |-> 0]
    /\ lkPc = [t \in 1..NumLockThreads |-> "idle"]
    /\ lkCopy = [t \in 1..NumLockThreads |-> 0]
    /\ lkResult = [t \in 1..NumLockThreads |-> "none"]
    /\ lkCalls = 0

(***************************************************************************)
(* phase.setValue                                                          *)
(***************************************************************************)
\* The mutant of setValueRefuses: only GameOver is treated as terminal.
setValueRefusesGameOverOnly(current) == current = GamePhaseGameOver

\* The switch of setValue: the cases that return an error.
setValueRefuses(current) ==
    current = GamePhaseGameOver \/ current = GamePhaseInitializationFailure

\* setValue, entry: p.rwmtx.Lock()
setValueLock(t, newValue) ==
    /\ phasePc[t] = "idle"
    /\ rwmtx = 0
    /\ phaseCalls < MaxPhaseCalls
    /\ rwmtx' = t
    /\ phasePc' = [phasePc EXCEPT ![t] = "locked"]
    /\ phaseArg' = [phaseArg EXCEPT ![t] = newValue]
    /\ phaseErr' = [phaseErr EXCEPT ![t] = "none"]
    /\ phaseCalls' = phaseCalls + 1
    /\ UNCHANGED <<p_value, exceptPhase>>

\* setValue, the switch and the deferred Unlock
setValueBody(t) ==
    /\ phasePc[t] = "locked"
    /\ rwmtx = t
    /\ IF setValueRefuses(p_value)
       THEN /\ phaseErr' = [phaseErr EXCEPT ![t] = "err"]
            /\ UNCHANGED p_value
       ELSE /\ p_value' = phaseArg[t]
            /\ phaseErr' = [phaseErr EXCEPT ![t] = "nil"]
    /\ rwmtx' = 0
    /\ phasePc' = [phasePc EXCEPT ![t] = "idle"]
    /\ UNCHANGED <<phaseArg, phaseCalls, exceptPhase>>

PhaseNext ==
    \/ \E t \in PhaseThreads, newValue \in AllGamePhases : setValueLock(t, newValue)
    \/ \E t \in PhaseThreads : setValueBody(t)

\* The phase cell alone: the other components stay as constructed.
InitPhase ==
    /\ PhaseInit
    /\ BallIdle
    /\ SubInit
    /\ CmdInit
    /\ CardInit
    /\ JoinInit
    /\ MgrInit
    /\ LockInit
    /\ ReplInit
    /\ LifeInit
    /\ PlayIdle
    /\ CellsInit

SpecPhase == InitPhase /\ [][PhaseNext]_vars

(***************************************************************************)
(* Ball registry operations (each runs under br.mtx from entry to return)  *)
(***************************************************************************)
\* The mutant of noMoreBalls: FreeSpace is returned without an error.
noMoreBallsSilent == [op |-> "NextAutomaticCall", ball |-> 0, err |-> FALSE]

\* NextAutomaticCall with an empty uncalled: FreeSpace and an error.
noMoreBalls == [op |-> "NextAutomaticCall", ball |-> 0, err |-> TRUE]

\* NextAutomaticCall
NextAutomaticCall ==
    IF Len(uncalled) = 0
    THEN /\ ballResult' = noMoreBalls
         /\ UNCHANGED <<called, uncalled, drawn, freshUncalled, shufflerDraws,
                        exceptBall>>
    ELSE LET l == Len(uncalled) - 1
             next == uncalled[l + 1]
         IN /\ uncalled' = SubSeq(uncalled, 1, l)
            /\ ballResult' = [op |-> "NextAutomaticCall", ball |-> next, err |-> FALSE]
            /\ drawn' = drawn + 1
            /\ UNCHANGED <<called, freshUncalled, shufflerDraws, exceptBall>>

\* The 0-based index of the first occurrence of ball in s, or -1.
foundIndex(s, ball) ==
    IF \E i \in 1..Len(s) : s[i] = ball
    THEN (CHOOSE i \in 1..Len(s) : s[i] = ball /\ \A j \in 1..(i - 1) : s[j] # ball) - 1
    ELSE -1

\* The mutant of SyncManualCall: the hole is filled with the last ball.
SyncManualCallSwapped(ball) ==
    LET fi == foundIndex(uncalled, ball) IN
    IF fi = -1
    THEN /\ ballResult' = [op |-> "SyncManualCall", ball |-> ball, err |-> TRUE]
         /\ UNCHANGED <<called, uncalled, drawn, freshUncalled, shufflerDraws,
                        exceptBall>>
    ELSE LET end == Len(uncalled) - 1 IN
         /\ called' = Append(called, uncalled[fi + 1])
         /\ uncalled' = [k \in 1..end |-> IF k - 1 = fi THEN uncalled[end + 1] ELSE uncalled[k]]
         /\ ballResult' = [op |-> "SyncManualCall", ball |-> ball, err |-> FALSE]
         /\ drawn' = drawn + 1
         /\ UNCHANGED <<freshUncalled, shufflerDraws, exceptBall>>

\* SyncManualCall(ball)
SyncManualCall(ball) ==
    LET fi == foundIndex(uncalled, ball) IN
    IF fi = -1
    THEN /\ ballResult' = [op |-> "SyncManualCall", ball |-> ball, err |-> TRUE]
         /\ UNCHANGED <<called, uncalled, drawn, freshUncalled, shufflerDraws,
                        exceptBall>>
    ELSE LET end == Len(uncalled) - 1 IN
         /\ called' = Append(called, uncalled[fi + 1])
         /\ uncalled' = [k \in 1..end |-> IF k - 1 < fi THEN uncalled[k] ELSE uncalled[k + 1]]
         /\ ballResult' = [op |-> "SyncManualCall", ball |-> ball, err |-> FALSE]
         /\ drawn' = drawn + 1
         /\ UNCHANGED <<freshUncalled, shufflerDraws, exceptBall>>

\* Reset: a new range, shuffled by the registry's own shuffler, whose
\* generator goes on from where the previous shuffle left it
Reset ==
    /\ shufflerDraws < (MaxResets + 1) * (NumBalls - 1)
    /\ uncalled' \in shuffleBalls(generateBingoBallsForRange(1, NumBalls))
    /\ called' = << >>
    /\ ballResult' = [op |-> "Reset", ball |-> 0, err |-> FALSE]
    /\ drawn' = 0
    /\ shufflerDraws' = shufflerDraws + (NumBalls - 1)
    /\ UNCHANGED <<freshUncalled, exceptBall>>

BallNext ==
    \/ NextAutomaticCall
    \/ \E ball \in 0..NumBalls : SyncManualCall(ball)
    \/ Reset

\* The ball registry alone.
InitBall ==
    /\ PhaseInit
    /\ BallInit
    /\ SubInit
    /\ CmdInit
    /\ CardInit
    /\ JoinInit
    /\ MgrInit
    /\ LockInit
    /\ ReplInit
    /\ LifeInit
    /\ PlayIdle
    /\ CellsInit

SpecBall == InitBall /\ [][BallNext]_vars

(***************************************************************************)
(* Subscriptions manager: subscribe, unsubscribe, dispatchEvent            *)
(*                                                                         *)
(* disposed() answers false whether or not disposedChan is closed (the     *)
(* second value of the receive is false on a closed channel), so the       *)
(* guards of subscribe and dispatchEvent never take their error return.    *)
(***************************************************************************)
\* isEligibleForDispatch(subscription, event); the filters are slices in the
\* code, read only through len and membership.
isEligibleForDispatch(subscription, event) ==
    LET matchesPhaseFilters ==
            \/ Cardinality(subscription.recipientIDs) = 0
            \/ event.Phase \in subscription.filteredPhases
        matchesRecipients ==
            \/ Cardinality(event.RecipientIDs) = 0
            \/ \E id \in event.RecipientIDs : id \in subscription.recipientIDs
    IN matchesPhaseFilters /\ matchesRecipients

\* The second result of a receive from a closed channel that holds no value.
closedReceiveOk == FALSE

\* disposed(): under sm.mtx, the select receives from the unbuffered
\* disposedChan when it is closed and returns the second result of the
\* receive; the default case returns false
disposed ==
    IF disposedChanClosed > 0 THEN closedReceiveOk ELSE FALSE

\* The mutant of DispatchFailed: an error only when no send succeeded.
DispatchFailedWhenNoneSucceeded(max, successful) == max # 0 /\ successful = 0

\* dispatchUnsafe, the test on unfulfilled
DispatchFailed(max, successful) == max - successful # 0

\* subscribe(phases, recipientIDs): the error return when disposed(); else
\* it runs under sm.mtx from Lock to return
subscribe(phases, recipientIDs) ==
    /\ sm_mtx = 0
    /\ subCount < MaxSubs
    /\ IF disposed
       THEN UNCHANGED <<subs, subscribed, subCount>>
       ELSE LET subID == subCount + 1
                entry == [id |-> subID, filteredPhases |-> phases,
                          recipientIDs |-> recipientIDs]
            IN /\ subs' = Append(subs, entry)
               /\ subscribed' = [subscribed EXCEPT ![subID] = TRUE]
               /\ subCount' = subID
    /\ UNCHANGED <<sm_mtx, routineBuffer, eventChan, chanClosed, recv, eventCount,
                   dEvent, maxBroadcasts, successfulBroadcasts, gPc, gLoaded,
                   dTimedOut, dispatchLog, exceptDispatch>>

\* safeUnsub of the subscription subID: Lock, entry.unsubscribe(), Unlock
safeUnsub(subID) ==
    /\ sm_mtx = 0
    /\ subID <= subCount
    /\ IF ~subscribed[subID]
       THEN UNCHANGED <<subs, chanClosed, subscribed>>
       ELSE /\ subs' = SelectSeq(subs, LAMBDA entry : entry.id # subID)
            /\ chanClosed' = [chanClosed EXCEPT ![subID] = @ + 1]
            /\ subscribed' = [subscribed EXCEPT ![subID] = FALSE]
    /\ UNCHANGED <<sm_mtx, routineBuffer, eventChan, recv, subCount, eventCount,
                   dEvent, maxBroadcasts, successfulBroadcasts, gPc, gLoaded,
                   dTimedOut, dispatchLog, exceptDispatch>>

\* dispatchUnsafe: the IDs of the subscriptions its loop starts a goroutine
\* for, in the order of sm.subs
eligibleIDs(entries, event) ==
    LET eligible == SelectSeq(entries, LAMBDA s : isEligibleForDispatch(s, event))
    IN [i \in 1..Len(eligible) |-> eligible[i].id]

\* dispatchEvent up to the loop of dispatchUnsafe: the error return when
\* disposed(); else backfill the ID, Lock, and the locals of dispatchUnsafe
dispatchEventStart(phase, recipientIDs) ==
    /\ sm_mtx = 0
    /\ eventCount < MaxDispatches
    /\ eventCount' = eventCount + 1
    /\ LET event == [ID |-> eventCount + 1, Phase |-> phase,
                     RecipientIDs |-> recipientIDs]
       IN IF disposed
          THEN /\ dispatchLog' = Append(dispatchLog,
                      [event |-> event, subs |-> {}, started |-> {}, timedOut |-> {},
                       err |-> TRUE, unfulfilled |-> 0, max |-> 0])
               /\ UNCHANGED <<sm_mtx, dEvent, dPending, dMode, maxBroadcasts,
                              successfulBroadcasts, dTimedOut>>
          ELSE /\ dEvent' = event
               /\ dPending' = eligibleIDs(subs, event)
               /\ dMode' = "event"
               /\ sm_mtx' = 1
               /\ maxBroadcasts' = Len(subs)
               /\ successfulBroadcasts' = 0
               /\ dTimedOut' = {}
               /\ UNCHANGED dispatchLog
    /\ UNCHANGED <<subs, routineBuffer, eventChan, chanClosed, subscribed, recv, subCount,
                   gPc, gLoaded, disposedChanClosed, disposeCalls, disposeReturns,
                   exceptSub>>

\* dispatchUnsafe, one iteration for an eligible subscription: wg.Add(1), the
\* receive of a token from sm.routineBuffer, which waits while the buffer is
\* empty, and the go statement
dispatchSpawn ==
    /\ dPending # << >>
    /\ routineBuffer > 0
    /\ routineBuffer' = routineBuffer - 1
    /\ gPc' = [gPc EXCEPT ![Head(dPending)] = "select"]
    /\ dPending' = Tail(dPending)
    /\ UNCHANGED <<subs, sm_mtx, eventChan, chanClosed, subscribed, recv, subCount,
                   eventCount, dEvent, maxBroadcasts, successfulBroadcasts, gLoaded,
                   dTimedOut, dispatchLog, disposedChanClosed, dMode, disposeCalls,
                   disposeReturns, exceptSub>>

\* goroutine, select: case s.eventChan <- event
goSend(subID) ==
    /\ gPc[subID] = "select"
    /\ Len(eventChan[subID]) < eventChanCap
    /\ eventChan' = [eventChan EXCEPT ![subID] = Append(@, dEvent)]
    /\ gPc' = [gPc EXCEPT ![subID] = "sent"]
    /\ UNCHANGED <<subs, sm_mtx, routineBuffer, chanClosed, subscribed, recv, subCount,
                   eventCount, dEvent, maxBroadcasts, successfulBroadcasts, gLoaded,
                   dTimedOut, dispatchLog, exceptDispatch>>

\* goroutine, select: case <-time.After(2 * time.Second), taken when the
\* channel stayed full; then the deferred wg.Done() and token return
goTimeout(subID) ==
    /\ gPc[subID] = "select"
    /\ Len(eventChan[subID]) >= eventChanCap
    /\ gPc' = [gPc EXCEPT ![subID] = "done"]
    /\ dTimedOut' = dTimedOut \cup { subID }
    /\ routineBuffer' = routineBuffer + 1
    /\ UNCHANGED <<subs, sm_mtx, eventChan, chanClosed, subscribed, recv, subCount,
                   eventCount, dEvent, maxBroadcasts, successfulBroadcasts, gLoaded,
                   dispatchLog, exceptDispatch>>

\* goroutine, successfulBroadcasts++: the read (the variable is shared by the
\* goroutines of one dispatch without synchronisation)
goLoad(subID) ==
    /\ gPc[subID] = "sent"
    /\ gLoaded' = [gLoaded EXCEPT ![subID] = successfulBroadcasts]
    /\ gPc' = [gPc EXCEPT ![subID] = "loaded"]
    /\ UNCHANGED <<subs, sm_mtx, routineBuffer, eventChan, chanClosed, subscribed, recv,
                   subCount, eventCount, dEvent, maxBroadcasts, successfulBroadcasts,
                   dTimedOut, dispatchLog, exceptDispatch>>

\* goroutine, successfulBroadcasts++: the write; then the deferred wg.Done()
\* and token return
goStore(subID) ==
    /\ gPc[subID] = "loaded"
    /\ successfulBroadcasts' = gLoaded[subID] + 1
    /\ gPc' = [gPc EXCEPT ![subID] = "done"]
    /\ routineBuffer' = routineBuffer + 1
    /\ UNCHANGED <<subs, sm_mtx, eventChan, chanClosed, subscribed, recv, subCount,
                   eventCount, dEvent, maxBroadcasts, gLoaded, dTimedOut, dispatchLog,
                   exceptDispatch>>

\* dispatchUnsafe after wg.Wait(): the result; then dispatchEvent's Unlock.
\* The log keeps what the call saw and what it returned.
dispatchEventReturn ==
    /\ dMode = "event"
    /\ dPending = << >>
    /\ \A id \in SubIDs : gPc[id] \in { "none", "done" }
    /\ LET unfulfilled == maxBroadcasts - successfulBroadcasts
           failed == DispatchFailed(maxBroadcasts, successfulBroadcasts)
       IN dispatchLog' = Append(dispatchLog,
              [event |-> dEvent,
               subs |-> { subs[i] : i \in 1..Len(subs) },
               started |-> { id \in SubIDs : gPc[id] = "done" },
               timedOut |-> dTimedOut,
               err |-> failed,
               unfulfilled |-> IF failed THEN unfulfilled ELSE 0,
               max |-> IF failed THEN maxBroadcasts ELSE 0])
    /\ gPc' = [id \in SubIDs |-> "none"]
    /\ sm_mtx' = 0
    /\ dMode' = "none"
    /\ UNCHANGED <<subs, routineBuffer, eventChan, chanClosed, subscribed, recv, subCount,
                   eventCount, dEvent, maxBroadcasts, successfulBroadcasts, gLoaded,
                   dTimedOut, dPending, disposedChanClosed, disposeCalls, disposeReturns,
                   exceptSub>>

\* dispose(systemID) up to the loop of dispatchUnsafe: the return of nil when
\* disposed(); else Lock and the locals of dispatchUnsafe for the GameOver
\* event addressed to everybody
dispose ==
    /\ sm_mtx = 0
    /\ disposeCalls < MaxDisposes
    /\ disposeCalls' = disposeCalls + 1
    /\ IF disposed
       THEN /\ disposeReturns' = disposeReturns + 1
            /\ UNCHANGED <<sm_mtx, eventCount, dEvent, dPending, dMode, maxBroadcasts,
                           successfulBroadcasts, dTimedOut>>
       ELSE LET event == [ID |-> eventCount + 1, Phase |-> GamePhaseGameOver,
                          RecipientIDs |-> {}]
            IN /\ dEvent' = event
               /\ dPending' = eligibleIDs(subs, event)
               /\ dMode' = "dispose"
               /\ sm_mtx' = 1
               /\ eventCount' = eventCount + 1
               /\ maxBroadcasts' = Len(subs)
               /\ successfulBroadcasts' = 0
               /\ dTimedOut' = {}
               /\ UNCHANGED disposeReturns
    /\ UNCHANGED <<subs, routineBuffer, eventChan, chanClosed, subscribed, recv, subCount,
                   gPc, gLoaded, dispatchLog, disposedChanClosed, exceptSub>>

\* dispose after dispatchUnsafe returned: s.unsubscribe() for every entry of
\* sm.subs; the loop that receives routineBufferSize tokens from
\* sm.routineBuffer, which waits for ever when fewer are there and no
\* goroutine holds one; close(sm.disposedChan), a panic when it is closed
\* already; the return and the deferred Unlock
disposeFinish ==
    /\ dMode = "dispose"
    /\ dPending = << >>
    /\ \A id \in SubIDs : gPc[id] \in { "none", "done" }
    /\ gPc' = [id \in SubIDs |-> "none"]
    /\ LET ids == { subs[i].id : i \in 1..Len(subs) }
       IN /\ subs' = << >>
          /\ chanClosed' = [id \in SubIDs |->
                 IF id \in ids /\ subscribed[id] THEN chanClosed[id] + 1
                 ELSE chanClosed[id]]
          /\ subscribed' = [id \in SubIDs |-> subscribed[id] /\ id \notin ids]
    /\ routineBuffer' = 0
    /\ IF routineBuffer < maxSubscriberGoroutines
       THEN /\ dMode' = "drain"
            /\ UNCHANGED <<sm_mtx, disposedChanClosed, disposeReturns>>
       ELSE /\ disposedChanClosed' = disposedChanClosed + 1
            /\ IF disposedChanClosed > 0
               THEN /\ dMode' = "panic"
                    /\ UNCHANGED <<sm_mtx, disposeReturns>>
               ELSE /\ dMode' = "none"
                    /\ sm_mtx' = 0
                    /\ disposeReturns' = disposeReturns + 1
    /\ UNCHANGED <<eventChan, recv, subCount, eventCount, dEvent, maxBroadcasts,
                   successfulBroadcasts, gLoaded, dTimedOut, dispatchLog, dPending,
                   disposeCalls, exceptSub>>

\* The consumer of a subscription reads the next event from its channel.
consumerReceive(subID) ==
    /\ Len(eventChan[subID]) > 0
    /\ recv' = [recv EXCEPT ![subID] = Append(@, Head(eventChan[subID]))]
    /\ eventChan' = [eventChan EXCEPT ![subID] = Tail(@)]
    /\ UNCHANGED <<subs, sm_mtx, routineBuffer, chanClosed, subscribed, subCount,
                   eventCount, dEvent, maxBroadcasts, successfulBroadcasts, gPc, gLoaded,
                   dTimedOut, dispatchLog, exceptDispatch>>

SubNext ==
    \/ \E phases \in PhaseFilters, recipientIDs \in RecipientFilters :
           subscribe(phases, recipientIDs)
    \/ \E subID \in SubIDs : safeUnsub(subID)
    \/ \E phase \in EventPhases, recipientIDs \in EventRecipients :
           dispatchEventStart(phase, recipientIDs)
    \/ dispatchSpawn
    \/ \E subID \in SubIDs : goSend(subID)
    \/ \E subID \in SubIDs : goTimeout(subID)
    \/ \E subID \in SubIDs : goLoad(subID)
    \/ \E subID \in SubIDs : goStore(subID)
    \/ dispatchEventReturn
    \/ dispose
    \/ disposeFinish
    \/ \E subID \in SubIDs : consumerReceive(subID)

\* The subscriptions manager alone.
InitSub ==
    /\ PhaseInit
    /\ BallIdle
    /\ SubInit
    /\ CmdInit
    /\ CardInit
    /\ JoinInit
    /\ MgrInit
    /\ LockInit
    /\ ReplInit
    /\ LifeInit
    /\ PlayIdle
    /\ CellsInit

SpecSub == InitSub /\ [][SubNext]_vars

(***************************************************************************)
(* Game.Command and the command loop started by New                        *)
(***************************************************************************)
\* processQueuedCommand(command): the handler; it returns nil
processQueuedCommand(command) == "nil"

\* The mutant of loopAfterReceive: the loop replies without running the handler.
loopReplyAfterReceive(session) == [pc |-> "reply", err |-> "nil"]

\* The loop body after a session arrives: run the handler on its command
loopAfterReceive(session) == [pc |-> "process", err |-> "none"]

\* Command, from g.mtx.Lock() to the send on commandChan; the send panics
\* when commandChan is closed, and the deferred calls release g.mtx
CommandEnter(t, type, commanderID) ==
    /\ cmdPc[t] = "idle"
    /\ g_mtx = 0
    /\ cmdCount < MaxCommands
    /\ cmdCount' = cmdCount + 1
    /\ cmdErr' = [cmdErr EXCEPT ![t] = "none"]
    /\ IF g_phase = GamePhaseGameOver \/ g_phase = GamePhaseInitializationFailure
       THEN /\ cmdResult' = [cmdResult EXCEPT ![t] = "err"]
            /\ UNCHANGED <<g_mtx, cmdPc, cmdSession, accepted>>
       ELSE IF commandChanClosed
       THEN /\ cmdResult' = [cmdResult EXCEPT ![t] = "panic"]
            /\ cmdPc' = [cmdPc EXCEPT ![t] = "panic"]
            /\ UNCHANGED <<g_mtx, cmdSession, accepted>>
       ELSE /\ g_mtx' = t
            /\ cmdPc' = [cmdPc EXCEPT ![t] = "send"]
            /\ cmdSession' = [cmdSession EXCEPT ![t] =
                                 [id |-> cmdCount + 1, type |-> type,
                                  commander |-> commanderID, errorChan |-> t]]
            /\ cmdResult' = [cmdResult EXCEPT ![t] = "none"]
            /\ accepted' = Append(accepted, cmdCount + 1)
    /\ UNCHANGED <<g_phase, loopPc, loopSession, loopErr, handled, returned, exceptCmd>>

\* The rendezvous on the unbuffered commandChan: Command's send meets the
\* loop's range receive
loopReceive(t) ==
    /\ loopPc = "range"
    /\ cmdPc[t] = "send"
    /\ cmdPc' = [cmdPc EXCEPT ![t] = "wait"]
    /\ loopSession' = cmdSession[t]
    /\ loopPc' = loopAfterReceive(cmdSession[t]).pc
    /\ loopErr' = loopAfterReceive(cmdSession[t]).err
    /\ UNCHANGED <<g_mtx, g_phase, cmdSession, cmdErr, cmdResult, cmdCount, accepted,
                   handled, returned, exceptCmd>>

\* loop: err := game.processQueuedCommand(session.command)
loopProcess ==
    /\ loopPc = "process"
    /\ loopErr' = processQueuedCommand(loopSession)
    /\ handled' = Append(handled, loopSession.id)
    /\ loopPc' = "reply"
    /\ UNCHANGED <<g_mtx, g_phase, cmdPc, cmdSession, cmdErr, cmdResult, cmdCount,
                   loopSession, accepted, returned, exceptCmd>>

\* The rendezvous on the session's unbuffered errorChan: the loop's send meets
\* Command's receive; the range loop ends when commandChan is closed
loopReply ==
    /\ loopPc = "reply"
    /\ cmdPc[loopSession.errorChan] = "wait"
    /\ cmdErr' = [cmdErr EXCEPT ![loopSession.errorChan] = loopErr]
    /\ cmdPc' = [cmdPc EXCEPT ![loopSession.errorChan] = "received"]
    /\ loopPc' = IF commandChanClosed THEN "exited" ELSE "range"
    /\ UNCHANGED <<g_mtx, g_phase, cmdSession, cmdResult, cmdCount, loopSession,
                   loopErr, accepted, handled, returned, exceptCmd>>

\* Command after err := <-channel: both branches return nil; the deferred
\* close(channel) and g.mtx.Unlock()
CommandReturn(t) ==
    /\ cmdPc[t] = "received"
    /\ g_mtx = t
    /\ cmdResult' = [cmdResult EXCEPT ![t] = "nil"]
    /\ returned' = returned \cup { cmdSession[t].id }
    /\ cmdPc' = [cmdPc EXCEPT ![t] = "idle"]
    /\ g_mtx' = 0
    /\ UNCHANGED <<g_phase, cmdSession, cmdErr, cmdCount, loopPc, loopSession, loopErr,
                   accepted, handled, exceptCmd>>

CmdNext ==
    \/ \E t \in CmdThreads, type \in CommandTypes, commanderID \in Commanders :
          CommandEnter(t, type, commanderID)
    \/ \E t \in CmdThreads : loopReceive(t)
    \/ loopProcess
    \/ loopReply
    \/ \E t \in CmdThreads : CommandReturn(t)

\* The command loop alone.
InitCmd ==
    /\ PhaseInit
    /\ BallIdle
    /\ SubInit
    /\ CmdInit
    /\ CardInit
    /\ JoinInit
    /\ MgrInit
    /\ LockInit
    /\ ReplInit
    /\ LifeInit
    /\ PlayIdle
    /\ CellsInit

SpecCmd == InitCmd /\ [][CmdNext]_vars

(***************************************************************************)
(* Card registry: Start, the worker, CheckOutCard, ReturnCard              *)
(*                                                                         *)
(* Status() takes statusMtx.RLock() and releases it with Unlock(); here it *)
(* is the read of cg.status that it is written to be, available whenever   *)
(* no writer holds statusMtx.                                              *)
(***************************************************************************)
\* Status()
Status == status

\* The inner loops of generateUniqueEntry for one existing grid: the cells
\* that are not the free space and equal the new grid's cell
conflictsWith(cells, newCells) ==
    Cardinality({ <<i, j>> \in (1..5) \X (1..5) :
                    cells[i][j] # freeSpaceCell /\ cells[i][j] = newCells[i][j] })

\* generateUniqueEntry: cellConflicts after the loop over cg.registeredEntries
\* (one counter, incremented across all entries)
RECURSIVE cellConflictsFrom(_, _, _)
cellConflictsFrom(entries, newCells, n) ==
    IF n = 0 THEN 0
    ELSE cellConflictsFrom(entries, newCells, n - 1)
         + conflictsWith(entries[n].cells, newCells)

cellConflicts(entries, newCells) == cellConflictsFrom(entries, newCells, Len(entries))

\* CheckOutCard: playerCards after the loop
playerCards(entries, playerID) ==
    Cardinality({ i \in 1..Len(entries) :
                    \E k \in 1..Len(entries[i].prevPlayerIDs) :
                        entries[i].prevPlayerIDs[k] = playerID })

\* The mutant of reusableIndex: the first inactive entry, whoever it lists.
reusableIndexAnyInactive(entries, playerID) ==
    LET reusable == { i \in 1..Len(entries) : ~entries[i].active }
    IN IF reusable = {} THEN 0
       ELSE CHOOSE i \in reusable : \A j \in reusable : i <= j

\* checkOutRecycledEntry: the index of the first entry that is inactive and
\* does not list the player, or 0
reusableIndex(entries, playerID) ==
    LET reusable == { i \in 1..Len(entries) :
                        /\ ~entries[i].active
                        /\ \A k \in 1..Len(entries[i].prevPlayerIDs) :
                              entries[i].prevPlayerIDs[k] # playerID }
    IN IF reusable = {} THEN 0
       ELSE CHOOSE i \in reusable : \A j \in reusable : i <= j

\* flushReturn: the index of the first entry with the card's ID, or 0
firstIndexOfID(entries, cardID) ==
    LET found == { i \in 1..Len(entries) : entries[i].id = cardID }
    IN IF found = {} THEN 0
       ELSE CHOOSE i \in found : \A j \in found : i <= j

\* The mutant of entriesMtxLockedBy: generateUniqueEntry runs without the lock.
entriesMtxLeftFree(g) == 0

\* generateUniqueEntry: entriesMtx after cg.entriesMtx.Lock()
entriesMtxLockedBy(g) == g

\* Start, called once: status := cg.Status(); the two early returns; then
\* statusMtx.Lock(), status = running, and the call of equalizeEntrySurplus
Start ==
    /\ startPc = "idle"
    /\ statusMtx = 0
    /\ IF Status = cardGenStatusTerminated
       THEN /\ startPc' = "error"
            /\ UNCHANGED <<status, statusMtx, eqPc, eqMode, availableCards>>
       ELSE IF Status = cardGenStatusRunning
       THEN /\ startPc' = "returned"
            /\ UNCHANGED <<status, statusMtx, eqPc, eqMode, availableCards>>
       ELSE /\ statusMtx' = 1
            /\ status' = cardGenStatusRunning
            /\ startPc' = "equalize"
            /\ eqPc' = "test"
            /\ eqMode' = "start"
            /\ availableCards' = 0
    /\ UNCHANGED <<registeredEntries, entriesMtx, returnChan, entryCount, wPc, wCard,
                   tickCount, genPc, genCells, coPc, coPlayer, coEntry, coResult,
                   coCount, heldCards, exceptCard>>

\* equalizeEntrySurplus: the loop test; after the loop the early return when
\* availableCards < maxEntrySurplus.  Returning to Start creates the ticker,
\* launches the worker and releases statusMtx; returning to the worker's
\* ticker case puts the worker back at its select.
eqTest ==
    /\ eqPc = "test"
    /\ IF availableCards < minEntrySurplus
       THEN /\ eqPc' = "count"
            /\ UNCHANGED <<statusMtx, startPc, eqMode, availableCards, wPc>>
       ELSE IF availableCards < maxEntrySurplus
       THEN /\ eqPc' = "off"
            /\ eqMode' = "none"
            /\ availableCards' = 0
            /\ wPc' = "select"
            /\ statusMtx' = IF eqMode = "start" THEN 0 ELSE statusMtx
            /\ startPc' = IF eqMode = "start" THEN "returned" ELSE startPc
       ELSE /\ eqPc' = "prune"
            /\ UNCHANGED <<statusMtx, startPc, eqMode, availableCards, wPc>>
    /\ UNCHANGED <<status, registeredEntries, entriesMtx, returnChan, entryCount,
                   wCard, tickCount, genPc, genCells, coPc, coPlayer,
                   coEntry, coResult, coCount, heldCards, exceptCard>>

\* equalizeEntrySurplus, loop body: count the inactive entries under
\* entriesMtx, then call generateUniqueEntry
eqCount ==
    /\ eqPc = "count"
    /\ entriesMtx = 0
    /\ availableCards' = Cardinality({ i \in 1..Len(registeredEntries) :
                                         ~registeredEntries[i].active })
    /\ eqPc' = "gen"
    /\ genPc' = [genPc EXCEPT ![WorkerID] = "lock"]
    /\ UNCHANGED <<status, statusMtx, registeredEntries, entriesMtx, returnChan,
                   entryCount, startPc, eqMode, wPc, wCard, tickCount, genCells, coPc,
                   coPlayer, coEntry, coResult, coCount, heldCards, exceptCard>>

\* equalizeEntrySurplus, the prune: under entriesMtx, sort the active entries
\* first and cut the inactive tail; then return as in eqTest
eqPrune ==
    /\ eqPc = "prune"
    /\ entriesMtx = 0
    /\ registeredEntries' = SelectSeq(registeredEntries, LAMBDA entry : entry.active)
    /\ eqPc' = "off"
    /\ eqMode' = "none"
    /\ availableCards' = 0
    /\ wPc' = "select"
    /\ statusMtx' = IF eqMode = "start" THEN 0 ELSE statusMtx
    /\ startPc' = IF eqMode = "start" THEN "returned" ELSE startPc
    /\ UNCHANGED <<status, entriesMtx, returnChan, entryCount, wCard,
                   tickCount, genPc, genCells, coPc, coPlayer, coEntry, coResult,
                   coCount, heldCards, exceptCard>>

\* generateUniqueEntry: cg.entriesMtx.Lock()
genLock(g) ==
    /\ genPc[g] = "lock"
    /\ entriesMtx = 0
    /\ entriesMtx' = entriesMtxLockedBy(g)
    /\ genPc' = [genPc EXCEPT ![g] = "loop"]
    /\ UNCHANGED <<status, statusMtx, registeredEntries, returnChan, entryCount,
                   startPc, eqPc, eqMode, availableCards, wPc, wCard, tickCount,
                   genCells, coPc, coPlayer, coEntry, coResult, coCount, heldCards,
                   exceptCard>>

\* generateUniqueEntry: one iteration of the for loop with the grid newCells
\* coming from the generator; break when cellConflicts <= uniquenessThreshold
genTry(g, newCells) ==
    /\ genPc[g] = "loop"
    /\ IF cellConflicts(registeredEntries, newCells) <= uniquenessThreshold
       THEN /\ genCells' = [genCells EXCEPT ![g] = newCells]
            /\ genPc' = [genPc EXCEPT ![g] = "append"]
       ELSE UNCHANGED <<genCells, genPc>>
    /\ UNCHANGED <<status, statusMtx, registeredEntries, entriesMtx, returnChan,
                   entryCount, startPc, eqPc, eqMode, availableCards, wPc, wCard,
                   tickCount, coPc, coPlayer, coEntry, coResult, coCount, heldCards,
                   exceptCard>>

\* generateUniqueEntry: append the new entry, the deferred Unlock, and the
\* return to the caller (equalizeEntrySurplus or CheckOutCard)
genAppend(g) ==
    /\ genPc[g] = "append"
    /\ registeredEntries' = Append(registeredEntries,
           [cells |-> genCells[g], id |-> entryCount + 1,
            prevPlayerIDs |-> << >>, active |-> FALSE])
    /\ entryCount' = entryCount + 1
    /\ entriesMtx' = 0
    /\ genPc' = [genPc EXCEPT ![g] = "none"]
    /\ genCells' = [genCells EXCEPT ![g] = << >>]
    /\ IF g = WorkerID
       THEN /\ eqPc' = "test"
            /\ UNCHANGED <<coPc, coEntry>>
       ELSE /\ coPc' = [coPc EXCEPT ![g] = "activate"]
            /\ coEntry' = [coEntry EXCEPT ![g] = entryCount + 1]
            /\ UNCHANGED eqPc
    /\ UNCHANGED <<status, statusMtx, returnChan, startPc, eqMode, availableCards, wPc,
                   wCard, tickCount, coPlayer, coResult, coCount, heldCards,
                   exceptCard>>

\* CheckOutCard(playerID), entry: status := cg.Status() and the two error
\* returns
CheckOutCardCall(t, playerID) ==
    /\ statusMtx = 0
    /\ coPlayer' = [coPlayer EXCEPT ![t] = playerID]
    /\ IF Status = cardGenStatusIdle \/ Status = cardGenStatusTerminated
       THEN /\ coResult' = [coResult EXCEPT ![t] = [card |-> 0, err |-> TRUE]]
            /\ UNCHANGED coPc
       ELSE /\ coResult' = [coResult EXCEPT ![t] = [card |-> 0, err |-> FALSE]]
            /\ coPc' = [coPc EXCEPT ![t] = "count"]
    /\ UNCHANGED <<status, statusMtx, registeredEntries, entriesMtx, returnChan,
                   entryCount, startPc, eqPc, eqMode, availableCards, wPc, wCard,
                   tickCount, genPc, genCells, coEntry, heldCards>>

\* A CheckOutCard call made directly on the registry
CheckOutCard(t, playerID) ==
    /\ coPc[t] = "idle"
    /\ coCount < MaxCheckouts
    /\ coCount' = coCount + 1
    /\ CheckOutCardCall(t, playerID)
    /\ UNCHANGED exceptCard

\* CheckOutCard: count the entries that list the player, under entriesMtx;
\* error return when playerCards >= MaxCards
coCountHistory(t) ==
    /\ coPc[t] = "count"
    /\ entriesMtx = 0
    /\ IF playerCards(registeredEntries, coPlayer[t]) >= MaxCards
       THEN /\ coResult' = [coResult EXCEPT ![t] = [card |-> 0, err |-> TRUE]]
            /\ coPc' = [coPc EXCEPT ![t] = "idle"]
       ELSE /\ coPc' = [coPc EXCEPT ![t] = "recycle"]
            /\ UNCHANGED coResult
    /\ UNCHANGED <<status, statusMtx, registeredEntries, entriesMtx, returnChan,
                   entryCount, startPc, eqPc, eqMode, availableCards, wPc, wCard,
                   tickCount, genPc, genCells, coPlayer, coEntry, coCount, heldCards,
                   exceptCard>>

\* CheckOutCard: checkOutRecycledEntry under entriesMtx; with a reusable
\* entry the card is built and returned, else generateUniqueEntry is called
coRecycle(t) ==
    /\ coPc[t] = "recycle"
    /\ entriesMtx = 0
    /\ LET i == reusableIndex(registeredEntries, coPlayer[t]) IN
       IF i # 0
       THEN /\ registeredEntries' = [registeredEntries EXCEPT
                   ![i].active = TRUE,
                   ![i].prevPlayerIDs = Append(@, coPlayer[t])]
            /\ coResult' = [coResult EXCEPT
                   ![t] = [card |-> registeredEntries[i].id, err |-> FALSE]]
            /\ heldCards' = heldCards \cup { <<registeredEntries[i].id, coPlayer[t]>> }
            /\ coPc' = [coPc EXCEPT ![t] = "idle"]
            /\ UNCHANGED genPc
       ELSE /\ coPc' = [coPc EXCEPT ![t] = "gen"]
            /\ genPc' = [genPc EXCEPT ![t] = "lock"]
            /\ UNCHANGED <<registeredEntries, coResult, heldCards>>
    /\ UNCHANGED <<status, statusMtx, entriesMtx, returnChan, entryCount, startPc,
                   eqPc, eqMode, availableCards, wPc, wCard, tickCount, genCells,
                   coPlayer, coEntry, coCount, exceptCard>>

\* CheckOutCard after generateUniqueEntry: under entriesMtx mark the new
\* entry active and record the player (the entry is reached by pointer, also
\* when it has left the slice meanwhile); build and return the card
coActivate(t) ==
    /\ coPc[t] = "activate"
    /\ entriesMtx = 0
    /\ registeredEntries' = [i \in 1..Len(registeredEntries) |->
           IF registeredEntries[i].id = coEntry[t]
           THEN [registeredEntries[i] EXCEPT
                    !.active = TRUE, !.prevPlayerIDs = Append(@, coPlayer[t])]
           ELSE registeredEntries[i]]
    /\ coResult' = [coResult EXCEPT ![t] = [card |-> coEntry[t], err |-> FALSE]]
    /\ heldCards' = heldCards \cup { <<coEntry[t], coPlayer[t]>> }
    /\ coEntry' = [coEntry EXCEPT ![t] = 0]
    /\ coPc' = [coPc EXCEPT ![t] = "idle"]
    /\ UNCHANGED <<status, statusMtx, entriesMtx, returnChan, entryCount, startPc,
                   eqPc, eqMode, availableCards, wPc, wCard, tickCount, genPc,
                   genCells, coPlayer, coCount, exceptCard>>

\* ReturnCard(card) on a running registry: the status checks pass, then the
\* send on returnChan (buffer of returnChanCap)
ReturnCardCall(cardID) ==
    /\ statusMtx = 0
    /\ Status = cardGenStatusRunning
    /\ Len(returnChan) < returnChanCap
    /\ returnChan' = Append(returnChan, cardID)
    /\ heldCards' = { held \in heldCards : held[1] # cardID }
    /\ UNCHANGED <<status, statusMtx, registeredEntries, entriesMtx, entryCount,
                   startPc, eqPc, eqMode, availableCards, wPc, wCard, tickCount, genPc,
                   genCells, coPc, coPlayer, coEntry, coResult>>

\* A ReturnCard call made directly on the registry, for a card a player holds
ReturnCard(cardID, playerID) ==
    /\ <<cardID, playerID>> \in heldCards
    /\ ReturnCardCall(cardID)
    /\ UNCHANGED <<coCount, exceptCard>>

\* worker, select: case returnedCard := <-cg.returnChan
workerReceive ==
    /\ wPc = "select"
    /\ Len(returnChan) > 0
    /\ wCard' = Head(returnChan)
    /\ returnChan' = Tail(returnChan)
    /\ wPc' = "flush"
    /\ UNCHANGED <<status, statusMtx, registeredEntries, entriesMtx, entryCount,
                   startPc, eqPc, eqMode, availableCards, tickCount, genPc, genCells,
                   coPc, coPlayer, coEntry, coResult, coCount, heldCards, exceptCard>>

\* worker: flushReturn(returnedCard) under entriesMtx
flushReturn ==
    /\ wPc = "flush"
    /\ entriesMtx = 0
    /\ registeredEntries' = [i \in 1..Len(registeredEntries) |->
           IF registeredEntries[i].id = wCard /\ firstIndexOfID(registeredEntries, wCard) = i
           THEN [registeredEntries[i] EXCEPT !.active = FALSE]
           ELSE registeredEntries[i]]
    /\ wCard' = 0
    /\ wPc' = "select"
    /\ UNCHANGED <<status, statusMtx, entriesMtx, returnChan, entryCount, startPc,
                   eqPc, eqMode, availableCards, tickCount, genPc, genCells,
                   coPc, coPlayer, coEntry, coResult, coCount, heldCards, exceptCard>>

\* worker, select: case <-cg.surplusTicker.C, the call of equalizeEntrySurplus
workerTick ==
    /\ wPc = "select"
    /\ tickCount < MaxTicks
    /\ tickCount' = tickCount + 1
    /\ wPc' = "equalize"
    /\ eqPc' = "test"
    /\ eqMode' = "tick"
    /\ availableCards' = 0
    /\ UNCHANGED <<status, statusMtx, registeredEntries, entriesMtx, returnChan,
                   entryCount, startPc, wCard, genPc, genCells, coPc, coPlayer,
                   coEntry, coResult, coCount, heldCards, exceptCard>>

CardNext ==
    \/ Start
    \/ eqTest
    \/ eqCount
    \/ eqPrune
    \/ \E g \in Generators : genLock(g)
    \/ \E g \in Generators, newCells \in generateCells : genTry(g, newCells)
    \/ \E g \in Generators : genAppend(g)
    \/ \E t \in CardThreads, playerID \in PlayerIDs : CheckOutCard(t, playerID)
    \/ \E t \in CardThreads : coCountHistory(t)
    \/ \E t \in CardThreads : coRecycle(t)
    \/ \E t \in CardThreads : coActivate(t)
    \/ \E cardID \in 1..entryCount, playerID \in PlayerIDs : ReturnCard(cardID, playerID)
    \/ workerReceive
    \/ flushReturn
    \/ workerTick

\* The card registry alone.
InitCard ==
    /\ PhaseInit
    /\ BallIdle
    /\ SubInit
    /\ CmdInit
    /\ CardInit
    /\ JoinInit
    /\ MgrInit
    /\ LockInit
    /\ ReplInit
    /\ LifeInit
    /\ PlayIdle
    /\ CellsInit

SpecCard == InitCard /\ [][CardNext]_vars

(***************************************************************************)
(* Game.JoinGame and the leaveGame closure (src/game/game.go, lines        *)
(* 159-247).  The card registry of the game is the registry above.  The    *)
(* handlers that write g.phase and g.bannedPlayerIDs are not part of the   *)
(* sources; the two host commands below follow the specification.          *)
(***************************************************************************)
\* JoinGame: status of the new player
playerStatus(phase) ==
    IF phase = GamePhaseRoundStart THEN "active" ELSE "waitlisted"

\* The mutant of prevEntryIndex: the lookup finds nothing.
prevEntryNeverFound(entries, playerID) == 0

\* JoinGame: the index of the first roster entry with the player's ID, or 0
prevEntryIndex(entries, playerID) ==
    LET found == { i \in 1..Len(entries) : entries[i].playerID = playerID }
    IN IF found = {} THEN 0
       ELSE CHOOSE i \in found : \A j \in found : i <= j

\* leaveGame: the index of removedEntry, the last roster entry with the
\* captured ID, or 0 when the filter removed nothing
removedEntryIndex(entries, playerID) ==
    LET found == { i \in 1..Len(entries) : entries[i].playerID = playerID }
    IN IF found = {} THEN 0
       ELSE CHOOSE i \in found : \A j \in found : i >= j

\* JoinGame(playerID, playerName) from g.mtx.Lock() to the first
\* CheckOutCard: the three rejections, the lookup of an existing entry and
\* its return.  The game exists once New, and with it Start, has returned.
JoinGame(t, playerID) ==
    /\ startPc = "returned"
    /\ joinPc[t] = "idle"
    /\ g_mtx = 0
    /\ joinCalls < MaxJoins
    /\ joinCalls' = joinCalls + 1
    /\ IF g_phase = GamePhaseGameOver \/ playerID = hostID \/ playerID = systemID
       THEN /\ joinResult' = [joinResult EXCEPT ![t] = [err |-> TRUE, entry |-> 0]]
            /\ UNCHANGED <<g_mtx, joinPc, joinPlayer>>
       ELSE IF prevEntryIndex(cardPlayerEntries, playerID) # 0
       THEN /\ joinResult' = [joinResult EXCEPT ![t] =
                   [err |-> FALSE,
                    entry |-> cardPlayerEntries[prevEntryIndex(cardPlayerEntries, playerID)].id]]
            /\ UNCHANGED <<g_mtx, joinPc, joinPlayer>>
       ELSE /\ joinResult' = [joinResult EXCEPT ![t] = [err |-> FALSE, entry |-> 0]]
            /\ joinPlayer' = [joinPlayer EXCEPT ![t] = playerID]
            /\ g_mtx' = t
            /\ joinPc' = [joinPc EXCEPT ![t] = "checkout"]
    /\ UNCHANGED <<g_phase, cardPlayerEntries, bannedPlayerIDs, playerEntryCount,
                   closurePlayerID, playerChanClosed, leaveInvocations, joinCards,
                   joinClosure, joinRemaining, leaveCalls, cardVars, exceptJoin>>

\* JoinGame, loop body: card, err := g.cardRegistry.CheckOutCard(playerID)
joinCheckOut(t) ==
    /\ joinPc[t] = "checkout"
    /\ coPc[t] = "idle"
    /\ CheckOutCardCall(t, joinPlayer[t])
    /\ joinPc' = [joinPc EXCEPT ![t] = "await"]
    /\ UNCHANGED <<g_mtx, g_phase, cardPlayerEntries, bannedPlayerIDs,
                   playerEntryCount, closurePlayerID, playerChanClosed,
                   leaveInvocations, joinPlayer, joinCards, joinClosure, joinRemaining,
                   joinResult, joinCalls, leaveCalls, coCount, exceptJoin>>

\* JoinGame after CheckOutCard returned: the error return, the next
\* iteration, or after the loop the new entry with its channel and closure,
\* the append to the roster and the return; the deferred g.mtx.Unlock()
joinCardReturned(t) ==
    /\ joinPc[t] = "await"
    /\ coPc[t] = "idle"
    /\ coResult' = [coResult EXCEPT ![t] = [card |-> 0, err |-> FALSE]]
    /\ coPlayer' = [coPlayer EXCEPT ![t] = "p1"]
    /\ IF coResult[t].err
       THEN /\ joinResult' = [joinResult EXCEPT ![t] = [err |-> TRUE, entry |-> 0]]
            /\ joinCards' = [joinCards EXCEPT ![t] = << >>]
            /\ joinPlayer' = [joinPlayer EXCEPT ![t] = "none"]
            /\ joinPc' = [joinPc EXCEPT ![t] = "idle"]
            /\ g_mtx' = 0
            /\ UNCHANGED <<cardPlayerEntries, playerEntryCount, closurePlayerID>>
       ELSE IF Len(joinCards[t]) + 1 < MaxCards
       THEN /\ joinCards' = [joinCards EXCEPT ![t] = Append(@, coResult[t].card)]
            /\ joinPc' = [joinPc EXCEPT ![t] = "checkout"]
            /\ UNCHANGED <<g_mtx, joinResult, joinPlayer, cardPlayerEntries,
                           playerEntryCount, closurePlayerID>>
       ELSE /\ cardPlayerEntries' = Append(cardPlayerEntries,
                   [id |-> playerEntryCount + 1,
                    playerID |-> joinPlayer[t],
                    status |-> playerStatus(g_phase),
                    cards |-> Append(joinCards[t], coResult[t].card)])
            /\ playerEntryCount' = playerEntryCount + 1
            /\ closurePlayerID' = [closurePlayerID EXCEPT
                   ![playerEntryCount + 1] = joinPlayer[t]]
            /\ joinResult' = [joinResult EXCEPT
                   ![t] = [err |-> FALSE, entry |-> playerEntryCount + 1]]
            /\ joinCards' = [joinCards EXCEPT ![t] = << >>]
            /\ joinPlayer' = [joinPlayer EXCEPT ![t] = "none"]
            /\ joinPc' = [joinPc EXCEPT ![t] = "idle"]
            /\ g_mtx' = 0
    /\ UNCHANGED <<g_phase, bannedPlayerIDs, playerChanClosed, leaveInvocations,
                   joinClosure, joinRemaining, joinCalls, leaveCalls, status,
                   statusMtx, registeredEntries, entriesMtx, returnChan, entryCount,
                   startPc, eqPc, eqMode, availableCards, wPc, wCard, tickCount, genPc,
                   genCells, coPc, coEntry, coCount, heldCards, exceptJoin>>

\* The leaveGame closure of the player entry e, from g.mtx.Lock() to the
\* first ReturnCard: the filter on the captured playerID, the return of nil
\* when nothing was removed, else the new roster
leaveGame(t, e) ==
    /\ e <= playerEntryCount
    /\ joinPc[t] = "idle"
    /\ g_mtx = 0
    /\ leaveCalls < MaxLeaves
    /\ leaveCalls' = leaveCalls + 1
    /\ leaveInvocations' = [leaveInvocations EXCEPT ![e] = @ + 1]
    /\ LET removed == removedEntryIndex(cardPlayerEntries, closurePlayerID[e]) IN
       IF removed = 0
       THEN UNCHANGED <<g_mtx, cardPlayerEntries, joinPc, joinClosure, joinRemaining>>
       ELSE /\ cardPlayerEntries' = SelectSeq(cardPlayerEntries,
                   LAMBDA entry : entry.playerID # closurePlayerID[e])
            /\ joinRemaining' = [joinRemaining EXCEPT
                   ![t] = cardPlayerEntries[removed].cards]
            /\ joinClosure' = [joinClosure EXCEPT ![t] = e]
            /\ joinPc' = [joinPc EXCEPT ![t] = "returning"]
            /\ g_mtx' = t
    /\ UNCHANGED <<g_phase, bannedPlayerIDs, playerEntryCount, closurePlayerID,
                   playerChanClosed, joinPlayer, joinCards, joinResult, joinCalls,
                   cardVars, exceptJoin>>

\* leaveGame, loop body: err := g.cardRegistry.ReturnCard(card.ID)
leaveReturnCard(t) ==
    /\ joinPc[t] = "returning"
    /\ joinRemaining[t] # << >>
    /\ ReturnCardCall(Head(joinRemaining[t]))
    /\ joinRemaining' = [joinRemaining EXCEPT ![t] = Tail(@)]
    /\ UNCHANGED <<g_mtx, g_phase, cardPlayerEntries, bannedPlayerIDs,
                   playerEntryCount, closurePlayerID, playerChanClosed,
                   leaveInvocations, joinPc, joinPlayer, joinCards, joinClosure,
                   joinResult, joinCalls, leaveCalls, coCount, exceptJoin>>

\* leaveGame after the loop: close(newEntry.eventChan) on the channel of the
\* closure's own entry, which panics when that channel is closed already;
\* else the return and the deferred g.mtx.Unlock()
leaveClose(t) ==
    /\ joinPc[t] = "returning"
    /\ joinRemaining[t] = << >>
    /\ playerChanClosed' = [playerChanClosed EXCEPT ![joinClosure[t]] = @ + 1]
    /\ IF playerChanClosed[joinClosure[t]] > 0
       THEN /\ joinPc' = [joinPc EXCEPT ![t] = "panic"]
            /\ UNCHANGED <<g_mtx, joinClosure>>
       ELSE /\ joinPc' = [joinPc EXCEPT ![t] = "idle"]
            /\ joinClosure' = [joinClosure EXCEPT ![t] = 0]
            /\ g_mtx' = 0
    /\ UNCHANGED <<g_phase, cardPlayerEntries, bannedPlayerIDs, playerEntryCount,
                   closurePlayerID, leaveInvocations, joinPlayer, joinCards,
                   joinRemaining, joinResult, joinCalls, leaveCalls, cardVars,
                   exceptJoin>>

\* host_terminate_game, as the specification describes it: the phase
\* becomes GameOver.
host_terminate_game ==
    /\ g_mtx = 0
    /\ g_phase # GamePhaseGameOver
    /\ g_phase' = GamePhaseGameOver
    /\ UNCHANGED <<g_mtx, cardPlayerEntries, bannedPlayerIDs, playerEntryCount,
                   closurePlayerID, playerChanClosed, leaveInvocations, joinPc,
                   joinPlayer, joinCards, joinClosure, joinRemaining, joinResult,
                   joinCalls, leaveCalls, cardVars, exceptJoin>>

\* host_ban_player, as the specification describes it: the player's ID is
\* added to the banned list.
host_ban_player(playerID) ==
    /\ g_mtx = 0
    /\ playerID \notin bannedPlayerIDs
    /\ bannedPlayerIDs' = bannedPlayerIDs \cup { playerID }
    /\ UNCHANGED <<g_mtx, g_phase, cardPlayerEntries, playerEntryCount,
                   closurePlayerID, playerChanClosed, leaveInvocations, joinPc,
                   joinPlayer, joinCards, joinClosure, joinRemaining, joinResult,
                   joinCalls, leaveCalls, cardVars, exceptJoin>>

JoinNext ==
    \/ Start
    \/ eqTest
    \/ eqCount
    \/ eqPrune
    \/ \E g \in Generators : genLock(g)
    \/ \E g \in Generators, newCells \in generateCells : genTry(g, newCells)
    \/ \E g \in Generators : genAppend(g)
    \/ \E t \in CardThreads : coCountHistory(t)
    \/ \E t \in CardThreads : coRecycle(t)
    \/ \E t \in CardThreads : coActivate(t)
    \/ workerReceive
    \/ flushReturn
    \/ workerTick
    \/ \E t \in JoinThreads, playerID \in JoinIDs : JoinGame(t, playerID)
    \/ \E t \in JoinThreads : joinCheckOut(t)
    \/ \E t \in JoinThreads : joinCardReturned(t)
    \/ \E t \in JoinThreads, e \in PlayerEntryIDs : leaveGame(t, e)
    \/ \E t \in JoinThreads : leaveReturnCard(t)
    \/ \E t \in JoinThreads : leaveClose(t)
    \/ host_terminate_game
    \/ \E playerID \in BannablePlayerIDs : host_ban_player(playerID)

\* The game with its card registry: JoinGame and leaveGame.
InitJoin ==
    /\ PhaseInit
    /\ BallIdle
    /\ SubInit
    /\ CmdInit
    /\ CardInit
    /\ JoinInit
    /\ MgrInit
    /\ LockInit
    /\ ReplInit
    /\ LifeInit
    /\ PlayIdle
    /\ CellsInit

SpecJoin == InitJoin /\ [][JoinNext]_vars

(***************************************************************************)
(* The command loop with its handlers: processSystemDispose                *)
(* (src/game/commands_system.go, lines 9-22) and the dispose closure of    *)
(* New (src/game/game.go, lines 134-142).  processQueuedCommand of         *)
(* game.go is an empty body; the choice of the handler by the command's    *)
(* type follows the specification.                                         *)
(***************************************************************************)
\* The command types with a handler in the model.
HandledTypes == { "system_dispose" }

\* The handler the loop runs for a command.
handlerOf(command) ==
    IF command.type = "system_dispose" THEN "processSystemDispose" ELSE "none"

\* processSystemDispose(entityID), run by the loop goroutine: the error return
\* for a commander that is not the system; g.mtx.Lock(), which waits while
\* another goroutine holds g.mtx; then g.dispose(), the closure of New:
\* close(commandChan), terminateCardRegistry(), disposed = true, only when
\* disposed is false; the return and the deferred g.mtx.Unlock()
processSystemDispose ==
    /\ handlerOf(loopSession) = "processSystemDispose"
    /\ \/ loopPc = "process"
       \/ loopPc = "mtxLock" /\ g_mtx = 0
    /\ handled' = IF loopPc = "process" THEN Append(handled, loopSession.id) ELSE handled
    /\ IF loopSession.commander # systemID
       THEN /\ loopErr' = "err"
            /\ loopPc' = "reply"
            /\ UNCHANGED dispVars
       ELSE IF g_mtx # 0
       THEN /\ loopPc' = "mtxLock"
            /\ UNCHANGED <<loopErr, dispVars>>
       ELSE /\ loopErr' = "nil"
            /\ loopPc' = "reply"
            /\ commandChanClosed' = TRUE
            /\ gameDisposed' = TRUE
            /\ cleanupCalled' = IF gameDisposed THEN cleanupCalled ELSE cleanupCalled + 1
    /\ UNCHANGED <<g_mtx, g_phase, cmdPc, cmdSession, cmdErr, cmdResult, cmdCount,
                   loopSession, accepted, returned, exceptHandler>>

HandlerNext ==
    \/ \E t \in CmdThreads, type \in HandledTypes, commanderID \in Commanders :
          CommandEnter(t, type, commanderID)
    \/ \E t \in CmdThreads : loopReceive(t)
    \/ processSystemDispose
    \/ loopReply
    \/ \E t \in CmdThreads : CommandReturn(t)
    \/ host_terminate_game

\* The command loop with the handlers in place of the empty body.
InitHandlers ==
    /\ PhaseInit
    /\ BallIdle
    /\ SubInit
    /\ CmdInit
    /\ CardInit
    /\ JoinInit
    /\ MgrInit
    /\ LockInit
    /\ ReplInit
    /\ LifeInit
    /\ PlayIdle
    /\ CellsInit

SpecHandlers == InitHandlers /\ [][HandlerNext]_vars

\* The goroutines of the game run whenever they can: the loop receives,
\* handles and replies, and a Command call that has its reply returns.  Nothing
\* obliges a client to issue a command.
HandlerFairness ==
    /\ WF_vars(processSystemDispose)
    /\ WF_vars(loopReply)
    /\ \A t \in CmdThreads : WF_vars(loopReceive(t)) /\ WF_vars(CommandReturn(t))

SpecHandlersFair == InitHandlers /\ [][HandlerNext]_vars /\ HandlerFairness

(***************************************************************************)
(* subscriptions.Manager (src/subscriptions/subscriptions.go)              *)
(*                                                                         *)
(* The exported copy of the manager.  Its unsubscribe closure tests the    *)
(* subscribed flag before it locks sm.mtx, and Dispose calls the closures  *)
(* after it has released sm.mtx.  A critical section that cannot block is  *)
(* one step; the steps of one call are separated where the code releases   *)
(* or has not yet taken sm.mtx.                                            *)
(***************************************************************************)
\* disposed() of the Manager: the second result of the receive, as above.
mgrDisposed == IF mDisposedCloses > 0 THEN closedReceiveOk ELSE FALSE

\* isEligibleForDispatch of this copy: recipientMatch starts as false.
isEligibleForDispatchMgr(subscription, event) ==
    LET matchesPhaseFilters ==
            \/ Cardinality(subscription.recipientIDs) = 0
            \/ event.Phase \in subscription.filteredPhases
        recipientMatch ==
            \E id \in event.RecipientIDs : id \in subscription.recipientIDs
    IN matchesPhaseFilters /\ recipientMatch

\* The loop of the unsubscribe closure: the entries whose id differs.
filteredSubs(entries, subID) ==
    SelectSeq(entries, LAMBDA entry : entry.id # subID)

\* Subscribe, lines 103-105: the disposed() test, before sm.mtx is taken.
Subscribe(t, recipientIDs) ==
    /\ ~mPanic
    /\ subPc[t] = "idle"
    /\ mNextID + Cardinality({ u \in MgrThreads : subPc[u] = "lock" }) <= MaxMgrSubs
    /\ IF mgrDisposed
       THEN UNCHANGED <<subPc, subArg>>
       ELSE /\ subPc' = [subPc EXCEPT ![t] = "lock"]
            /\ subArg' = [subArg EXCEPT ![t] = recipientIDs]
    /\ UNCHANGED <<mSubs, mNextID, mSubscribed, mChanCloses, mDisposedCloses,
                   mRoutineBuffer, mPanic, unsubPc, unsubTarget, unsubCalls,
                   unsubReturned, mdPc, mdCopy, mdCalls, mdReturns, mdErr>>
    /\ UNCHANGED exceptMgr

\* Subscribe, lines 107-141: under sm.mtx, the new entry is appended.
SubscribeAppend(t) ==
    /\ ~mPanic
    /\ subPc[t] = "lock"
    /\ mSubs' = Append(mSubs, [id |-> mNextID, filteredPhases |-> {},
                               recipientIDs |-> subArg[t]])
    /\ mSubscribed' = [mSubscribed EXCEPT ![mNextID] = TRUE]
    /\ mNextID' = mNextID + 1
    /\ subPc' = [subPc EXCEPT ![t] = "idle"]
    /\ subArg' = [subArg EXCEPT ![t] = {}]
    /\ UNCHANGED <<mChanCloses, mDisposedCloses, mRoutineBuffer, mPanic, unsubPc,
                   unsubTarget, unsubCalls, unsubReturned, mdPc, mdCopy, mdCalls,
                   mdReturns, mdErr>>
    /\ UNCHANGED exceptMgr

\* The unsubscribe closure of subscription subID invoked by caller k, lines
\* 120-122: the test of the flag, without the lock.
unsubscribe(k, subID) ==
    /\ ~mPanic
    /\ unsubPc[k] = "idle"
    /\ subID < mNextID
    /\ unsubCalls < MaxUnsubCalls
    /\ unsubCalls' = unsubCalls + 1
    /\ IF ~mSubscribed[subID]
       THEN /\ unsubReturned' = [unsubReturned EXCEPT ![subID] = TRUE]
            /\ UNCHANGED <<unsubPc, unsubTarget>>
       ELSE /\ unsubPc' = [unsubPc EXCEPT ![k] = "lock"]
            /\ unsubTarget' = [unsubTarget EXCEPT ![k] = subID]
            /\ UNCHANGED unsubReturned
    /\ UNCHANGED <<mSubs, mNextID, mSubscribed, mChanCloses, mDisposedCloses,
                   mRoutineBuffer, mPanic, subPc, subArg, mdPc, mdCopy, mdCalls,
                   mdReturns, mdErr>>
    /\ UNCHANGED exceptMgr

\* The closure, lines 124-136, under sm.mtx, run by a caller that found the
\* flag set at line 120: the entry is filtered out and the stream is closed.
\* close of a closed channel panics.
unsubscribeLocked(k) ==
    /\ ~mPanic
    /\ unsubPc[k] = "lock"
    /\ LET subID == unsubTarget[k] IN
       /\ mSubs' = filteredSubs(mSubs, subID)
       /\ mChanCloses' = [mChanCloses EXCEPT ![subID] = @ + 1]
       /\ IF mChanCloses[subID] > 0
          THEN /\ mPanic' = TRUE
               /\ UNCHANGED <<mSubscribed, unsubReturned>>
          ELSE /\ mSubscribed' = [mSubscribed EXCEPT ![subID] = FALSE]
               /\ unsubReturned' = [unsubReturned EXCEPT ![subID] = TRUE]
               /\ UNCHANGED mPanic
    /\ unsubPc' = [unsubPc EXCEPT ![k] = "idle"]
    /\ unsubTarget' = [unsubTarget EXCEPT ![k] = 0]
    /\ UNCHANGED <<mNextID, mDisposedCloses, mRoutineBuffer, unsubCalls, subPc,
                   subArg, mdPc, mdCopy, mdCalls, mdReturns, mdErr>>
    /\ UNCHANGED exceptMgr

\* Dispose, lines 145-147: the disposed() test.
Dispose ==
    /\ ~mPanic
    /\ mdPc = "idle"
    /\ mdCalls < MaxMgrDisposes
    /\ mdCalls' = mdCalls + 1
    /\ IF mgrDisposed
       THEN /\ mdReturns' = mdReturns + 1
            /\ UNCHANGED mdPc
       ELSE /\ mdPc' = "dispatch"
            /\ UNCHANGED mdReturns
    /\ UNCHANGED <<mSubs, mNextID, mSubscribed, mChanCloses, mDisposedCloses,
                   mRoutineBuffer, mPanic, subPc, subArg, unsubPc, unsubTarget,
                   unsubCalls, unsubReturned, mdCopy, mdErr>>
    /\ UNCHANGED exceptMgr

\* Dispose, lines 149-157: DispatchEvent of the GameOver event (lines 62-100).
\* The event has no recipients; every goroutine started for an eligible
\* subscription sends into a stream buffer of one.
disposeDispatchEvent ==
    /\ ~mPanic
    /\ mdPc = "dispatch"
    /\ LET event == [ID |-> 0, Phase |-> GamePhaseGameOver, RecipientIDs |-> {}]
           eligible == { i \in 1..Len(mSubs) :
                           isEligibleForDispatchMgr(mSubs[i], event) }
       IN mdErr' = IF mgrDisposed THEN "err"
                   ELSE IF Cardinality(eligible) # Len(mSubs) THEN "err"
                   ELSE "nil"
    /\ mdPc' = "close"
    /\ UNCHANGED <<mSubs, mNextID, mSubscribed, mChanCloses, mDisposedCloses,
                   mRoutineBuffer, mPanic, subPc, subArg, unsubPc, unsubTarget,
                   unsubCalls, unsubReturned, mdCopy, mdCalls, mdReturns>>
    /\ UNCHANGED exceptMgr

\* Dispose, lines 159-168: under sm.mtx, the copy of the list and
\* close(sm.disposedChan).
disposeClose ==
    /\ ~mPanic
    /\ mdPc = "close"
    /\ mdCopy' = [i \in 1..Len(mSubs) |-> mSubs[i].id]
    /\ mDisposedCloses' = mDisposedCloses + 1
    /\ mPanic' = (mDisposedCloses > 0)
    /\ mdPc' = "unsub"
    /\ UNCHANGED <<mSubs, mNextID, mSubscribed, mChanCloses, mRoutineBuffer,
                   subPc, subArg, unsubPc, unsubTarget, unsubCalls,
                   unsubReturned, mdErr, mdCalls, mdReturns>>
    /\ UNCHANGED exceptMgr

\* Dispose, lines 170-172: s.unsubscribe() of the next entry of the copy, up to
\* the closure's sm.mtx.Lock().
disposeUnsubscribe ==
    /\ ~mPanic
    /\ mdPc = "unsub"
    /\ mdCopy # << >>
    /\ IF ~mSubscribed[Head(mdCopy)]
       THEN /\ mdCopy' = Tail(mdCopy)
            /\ UNCHANGED mdPc
       ELSE /\ mdPc' = "unsubLock"
            /\ UNCHANGED mdCopy
    /\ UNCHANGED <<mSubs, mNextID, mSubscribed, mChanCloses, mDisposedCloses,
                   mRoutineBuffer, mPanic, subPc, subArg, unsubPc, unsubTarget,
                   unsubCalls, unsubReturned, mdErr, mdCalls, mdReturns>>
    /\ UNCHANGED exceptMgr

\* The closure called by Dispose, lines 124-136.
disposeUnsubscribeLocked ==
    /\ ~mPanic
    /\ mdPc = "unsubLock"
    /\ LET subID == Head(mdCopy) IN
       /\ mSubs' = filteredSubs(mSubs, subID)
       /\ mChanCloses' = [mChanCloses EXCEPT ![subID] = @ + 1]
       /\ IF mChanCloses[subID] > 0
          THEN /\ mPanic' = TRUE
               /\ UNCHANGED mSubscribed
          ELSE /\ mSubscribed' = [mSubscribed EXCEPT ![subID] = FALSE]
               /\ UNCHANGED mPanic
    /\ mdCopy' = Tail(mdCopy)
    /\ mdPc' = "unsub"
    /\ UNCHANGED <<mNextID, mDisposedCloses, mRoutineBuffer, subPc, subArg,
                   unsubPc, unsubTarget, unsubCalls, unsubReturned, mdErr,
                   mdCalls, mdReturns>>
    /\ UNCHANGED exceptMgr

\* Dispose, lines 174-182: the loop receives maxSubscriberGoroutines tokens and
\* Dispose returns; with fewer tokens in the buffer it waits.
disposeDrain ==
    /\ ~mPanic
    /\ mdPc = "unsub"
    /\ mdCopy = << >>
    /\ IF mRoutineBuffer = maxSubscriberGoroutines
       THEN /\ mRoutineBuffer' = 0
            /\ mdPc' = "idle"
            /\ mdReturns' = mdReturns + 1
       ELSE /\ mdPc' = "drain"
            /\ UNCHANGED <<mRoutineBuffer, mdReturns>>
    /\ UNCHANGED <<mSubs, mNextID, mSubscribed, mChanCloses, mDisposedCloses,
                   mPanic, subPc, subArg, unsubPc, unsubTarget, unsubCalls,
                   unsubReturned, mdCopy, mdErr, mdCalls>>
    /\ UNCHANGED exceptMgr

MgrNext ==
    \/ \E t \in MgrThreads, recipientIDs \in RecipientFilters :
           Subscribe(t, recipientIDs)
    \/ \E t \in MgrThreads : SubscribeAppend(t)
    \/ \E k \in MgrThreads, subID \in MgrSubIDs : unsubscribe(k, subID)
    \/ \E k \in MgrThreads : unsubscribeLocked(k)
    \/ Dispose
    \/ disposeDispatchEvent
    \/ disposeClose
    \/ disposeUnsubscribe
    \/ disposeUnsubscribeLocked
    \/ disposeDrain

\* The Manager alone: the other components stay as constructed.
InitMgr ==
    /\ PhaseInit
    /\ BallIdle
    /\ SubInit
    /\ CmdInit
    /\ CardInit
    /\ JoinInit
    /\ MgrInit
    /\ LockInit
    /\ ReplInit
    /\ LifeInit
    /\ PlayIdle
    /\ CellsInit

SpecMgr == InitMgr /\ [][MgrNext]_vars

(***************************************************************************)
(* cellsGenerator.generateCells (src/game/cellsgenerator.go, lines 17-56)  *)
(* with shuffler.shuffleBalls (src/game/shuffler.go, lines 24-31).  The     *)
(* values rng.Intn returns are the input: draw i of a shuffle is any value *)
(* of 0..i, here one of a few families of draws.                           *)
(***************************************************************************)
\* generateBingoBallsForRange(start, end) with the real MaxBallValue.
ballsForRange(start, end) ==
    IF end <= start \/ start <= 0 \/ end <= 0
          \/ start > MaxBallValue \/ end > MaxBallValue
    THEN << >>
    ELSE [k \in 1..(end - start + 1) |-> start + k - 1]

\* rng.Intn(i + 1) in the family of draws k.
drawOf(k, i) ==
    CASE k = 1 -> 0
      [] k = 2 -> i
      [] k = 3 -> i \div 2
      [] k = 4 -> (7 * i) % (i + 1)
      [] k = 5 -> i - 1
      [] OTHER -> (k * i) % (i + 1)

\* shuffleBalls with the draws of family k, from index i down to 1.
RECURSIVE shuffleWith(_, _, _)
shuffleWith(balls, k, i) ==
    IF i < 1 THEN balls
    ELSE shuffleWith(SwapAt(balls, i, drawOf(k, i)), k, i - 1)

\* The mutant of rotateCells: the body of the inner loop does nothing.
rotateCellsNot(grid, i, j) == grid

\* The body of the inner loop of the rotation, for the 0-based indexes i, j:
\* row2[i] = cell1, row1[j] = cell2.
rotateCells(grid, i, j) ==
    LET cell1 == grid[i + 1][j + 1]
        cell2 == grid[j + 1][i + 1]
    IN [[grid EXCEPT ![j + 1][i + 1] = cell1] EXCEPT ![i + 1][j + 1] = cell2]

\* The two loops of the rotation from (i, j) on.
RECURSIVE rotateFrom(_, _, _)
rotateFrom(grid, i, j) ==
    IF i >= Len(grid) THEN grid
    ELSE IF j >= Len(grid[i + 1]) THEN rotateFrom(grid, i + 1, i + 1)
    ELSE rotateFrom(rotateCells(grid, i, j), i, j + 1)

\* generateCells when the shuffle of column c gets the draws of family draws[c]
generateCellsWith(draws) ==
    LET shuffled == [c \in 1..5 |->
            LET all == ballsForRange(15 * (c - 1) + 1, 15 * c)
            IN shuffleWith(all, draws[c], Len(all) - 1)]
        aggregateCells == [c \in 1..5 |-> SubSeq(shuffled[c], 1, 5)]
        withFreeSpace == [aggregateCells EXCEPT ![3][3] = FreeSpace]
    IN rotateFrom(withFreeSpace, 0, 0)

\* A call of generateCells
generateCellsCall(draws) ==
    /\ cgDraws' = draws
    /\ cgGrid' = generateCellsWith(draws)
    /\ UNCHANGED exceptCells

CellsNext ==
    \E draws \in [1..5 -> DrawFamilies] : generateCellsCall(draws)

\* The cells generator alone.
InitCells ==
    /\ PhaseInit
    /\ BallIdle
    /\ SubInit
    /\ CmdInit
    /\ CardInit
    /\ JoinInit
    /\ MgrInit
    /\ LockInit
    /\ ReplInit
    /\ LifeInit
    /\ PlayIdle
    /\ CellsInit

SpecCells == InitCells /\ [][CellsNext]_vars

(***************************************************************************)
(* The command handlers processPlayerDaub, processPlayerUndoDaub           *)
(* (src/unnamed/part_008, lines 242-292, with setDaubValue, lines 365-430) *)
(* and processAutomaticBall (src/game/commands_host.go, lines 11-44).      *)
(* processQueuedCommand is an empty body, so a handler is run here by a    *)
(* goroutine of its own, one call at a time, when g.mtx is free.  A call   *)
(* that dispatches an event returns once dispatchEvent has returned.       *)
(***************************************************************************)
\* The card IDs of the roster: JoinGame checks out MaxCards cards per player.
RosterCardIDs == 1..(2 * MaxCards)

\* The cells of the card cardID: a grid of generateCells, nothing daubed.
rosterCells(cardID) ==
    LET grid == generateCellsWith([c \in 1..5 |-> ((cardID + c) % NumDrawFamilies) + 1])
    IN [i \in 1..5 |-> [j \in 1..5 |-> [Number |-> grid[i][j], Daubed |-> FALSE]]]

\* The cards of the roster's n-th player.
rosterCards(n) ==
    [k \in 1..MaxCards |->
        [ID |-> (n - 1) * MaxCards + k, Cells |-> rosterCells((n - 1) * MaxCards + k)]]

\* The game after p1 and p2 have joined, with no handler running.
PlayInit ==
    /\ cardPlayers = << [playerID |-> "p1", cards |-> rosterCards(1)],
                        [playerID |-> "p2", cards |-> rosterCards(2)] >>
    /\ hPc = "idle"
    /\ hCall = NoCall
    /\ hCalls = 0
    /\ hEvents = << >>

\* The commanders, cards and cell values the handler calls draw from: a
\* player and the host, who is not in the roster; a card of each player; the
\* free space, a value of each of the first two columns of card 1, and a
\* value that is no ball.
PlayCommanders == { "p1", hostID }
PlayCardIDs    == { 1, MaxCards + 1 }
PlayValues     ==
    { FreeSpace, MaxBallValue + 1, rosterCells(1)[1][1].Number,
      rosterCells(1)[1][2].Number }

\* command.Payload: what json.Unmarshal makes of it, and whether it succeeds;
\* a payload that does not parse names no card and no value.
PlayPayloads ==
    { [ok |-> TRUE, cardID |-> cardID, value |-> value] :
        cardID \in PlayCardIDs, value \in PlayValues }
        \cup { [ok |-> FALSE, cardID |-> 0, value |-> 0] }

\* The phases the callers of setValue pass.
PlayPhases == { GamePhaseRoundStart, GamePhaseCalling }

\* The 1-based index of the first roster entry with the commander's ID, or 0.
playerIndex(roster, commanderID) ==
    LET found == { i \in 1..Len(roster) : roster[i].playerID = commanderID }
    IN IF found = {} THEN 0 ELSE CHOOSE i \in found : \A j \in found : i <= j

\* The 1-based index of the player's first card with the ID, or 0.
cardIndex(cards, cardID) ==
    LET found == { i \in 1..Len(cards) : cards[i].ID = cardID }
    IN IF found = {} THEN 0 ELSE CHOOSE i \in found : \A j \in found : i <= j

\* bingo.ParseBall: the error return
ParseBallFails(rawBallValue) == rawBallValue > MaxBallValue \/ rawBallValue < 0

\* setDaubValue: colIndex := (int(ball) - 1) / bingo.MaxBallValue
colIndex(ball) == (ball - 1) \div MaxBallValue

\* setDaubValue: the 1-based row of the first cell of column colIndex whose
\* Number is the ball, or 0
daubRow(cells, ball) ==
    LET found == { i \in 1..5 : cells[i][colIndex(ball) + 1].Number = ball }
    IN IF found = {} THEN 0 ELSE CHOOSE i \in found : \A j \in found : i <= j

\* setDaubValue(game, command, daubValue): its error and the roster it leaves
setDaubValue(phase, roster, commanderID, payloadOk, cardID, value, daubValue) ==
    LET failed == [err |-> TRUE, roster |-> roster]
        p == playerIndex(roster, commanderID)
    IN IF phase = GamePhaseRoundStart \/ phase = GamePhaseRoundEnd THEN failed
       ELSE IF p = 0 THEN failed
       ELSE IF ~payloadOk THEN failed
       ELSE IF ParseBallFails(value) THEN failed
       ELSE LET c == cardIndex(roster[p].cards, cardID)
            IN IF c = 0 THEN failed
               ELSE IF value = FreeSpace
               THEN [err |-> FALSE,
                     roster |-> [roster EXCEPT
                                   ![p].cards[c].Cells[3][3].Daubed = daubValue]]
               ELSE LET r == daubRow(roster[p].cards[c].Cells, value)
                    IN IF r = 0 THEN failed
                       ELSE [err |-> FALSE,
                             roster |-> [roster EXCEPT
                                 ![p].cards[c].Cells[r][colIndex(value) + 1].Daubed =
                                     daubValue]]

\* g.phaseSubscriptions.dispatchEvent(event) as a handler calls it, up to the
\* loop of dispatchUnsafe: the manager is not disposed here, so it backfills
\* the ID, locks sm.mtx and sets the locals of dispatchUnsafe
dispatchEventBy(type, createdByID, phase, recipientIDs) ==
    LET event == [ID |-> eventCount + 1, Phase |-> phase, RecipientIDs |-> recipientIDs]
    IN /\ eventCount' = eventCount + 1
       /\ dEvent' = event
       /\ dPending' = eligibleIDs(subs, event)
       /\ dMode' = "event"
       /\ sm_mtx' = 1
       /\ maxBroadcasts' = Len(subs)
       /\ successfulBroadcasts' = 0
       /\ dTimedOut' = {}
       /\ hEvents' = Append(hEvents,
              [ID |-> eventCount + 1, Type |-> type, CreatedByID |-> createdByID,
               Phase |-> phase, RecipientIDs |-> recipientIDs])
       /\ UNCHANGED <<subs, routineBuffer, eventChan, chanClosed, subscribed, recv,
                      subCount, gPc, gLoaded, dispatchLog, disposedChanClosed,
                      disposeCalls, disposeReturns>>

\* The body the two daub handlers share: setDaubValue, which holds g.mtx from
\* its Lock to its return, the choice of the event's type and message, and
\* the call of dispatchEvent
daubCommand(handler, daubValue, commanderID, payloadOk, cardID, value) ==
    /\ LET r == setDaubValue(p_value, cardPlayers, commanderID, payloadOk, cardID,
                             value, daubValue)
           eventType == IF r.err THEN EventTypeUpdate ELSE EventTypeError
       IN /\ cardPlayers' = r.roster
          /\ hCall' = [n |-> hCalls + 1, handler |-> handler, commander |-> commanderID,
                       payloadOk |-> payloadOk, cardID |-> cardID, value |-> value,
                       err |-> r.err]
          /\ dispatchEventBy(eventType, commanderID, p_value, { commanderID })
    /\ hCalls' = hCalls + 1
    /\ hPc' = "dispatch"
    /\ UNCHANGED exceptDaub

\* A handler can start: no other handler runs, g.mtx and the phase cell are
\* free, and the bounds on calls and events are not reached.
handlerCanStart ==
    /\ hPc = "idle"
    /\ g_mtx = 0
    /\ rwmtx = 0
    /\ sm_mtx = 0
    /\ hCalls < MaxHandlerCalls

\* processPlayerDaub(command)
processPlayerDaub(commanderID, payloadOk, cardID, value) ==
    /\ handlerCanStart
    /\ eventCount < MaxDispatches
    /\ daubCommand("player_daub", TRUE, commanderID, payloadOk, cardID, value)

\* processPlayerUndoDaub(command)
processPlayerUndoDaub(commanderID, payloadOk, cardID, value) ==
    /\ handlerCanStart
    /\ eventCount < MaxDispatches
    /\ daubCommand("player_undo_daub", FALSE, commanderID, payloadOk, cardID, value)

\* processAutomaticBall(commanderID): g.mtx.Lock(); the two rejections;
\* NextAutomaticCall; the Error event to the commander when it failed, else
\* the Update event to everybody; g.mtx is held until the return
processAutomaticBall(commanderID) ==
    /\ handlerCanStart
    /\ hCalls' = hCalls + 1
    /\ IF commanderID # hostID \/ p_value # GamePhaseCalling
       THEN /\ hCall' = [n |-> hCalls + 1, handler |-> "host_request_ball",
                         commander |-> commanderID, payloadOk |-> TRUE,
                                    cardID |-> 0, value |-> 0,
                         err |-> TRUE]
            /\ UNCHANGED <<g_mtx, hPc, hEvents, ballVars, subVars, smVars>>
       ELSE /\ eventCount < MaxDispatches
            /\ g_mtx' = HandlerID
            /\ hPc' = "dispatch"
            /\ UNCHANGED <<called, freshUncalled, shufflerDraws>>
            /\ IF Len(uncalled) = 0
               THEN /\ ballResult' = noMoreBalls
                    /\ UNCHANGED <<uncalled, drawn>>
                    /\ hCall' = [n |-> hCalls + 1, handler |-> "host_request_ball",
                                 commander |-> commanderID, payloadOk |-> TRUE,
                                    cardID |-> 0, value |-> 0,
                                 err |-> TRUE]
                    /\ dispatchEventBy(EventTypeError, commanderID, GamePhaseCalling,
                                       { commanderID })
               ELSE LET l == Len(uncalled) - 1
                        ball == uncalled[l + 1]
                    IN /\ uncalled' = SubSeq(uncalled, 1, l)
                       /\ ballResult' = [op |-> "NextAutomaticCall", ball |-> ball,
                                         err |-> FALSE]
                       /\ drawn' = drawn + 1
                       /\ hCall' = [n |-> hCalls + 1, handler |-> "host_request_ball",
                                    commander |-> commanderID, payloadOk |-> TRUE,
                                    cardID |-> 0,
                                    value |-> ball, err |-> FALSE]
                       /\ dispatchEventBy(EventTypeUpdate, commanderID, GamePhaseCalling, {})
    /\ UNCHANGED <<cardPlayers, exceptHostBall>>

\* The return of a handler whose dispatchEvent has returned, with the
\* deferred g.mtx.Unlock() of processAutomaticBall
handlerReturn ==
    /\ hPc = "dispatch"
    /\ dMode = "none"
    /\ hPc' = "idle"
    /\ g_mtx' = IF g_mtx = HandlerID THEN 0 ELSE g_mtx
    /\ UNCHANGED <<cardPlayers, hCall, hCalls, hEvents, ballVars, subVars, smVars,
                   exceptHostBall>>

\* The subscriptions made here are p1's for the calling phase, and no
\* consumer reads its channel while the handlers run.
DaubNext ==
    \/ \E newValue \in PlayPhases : setValueLock(1, newValue)
    \/ setValueBody(1)
    \/ subscribe({ GamePhaseCalling }, { "p1" })
    \/ \E commanderID \in PlayCommanders, payload \in PlayPayloads :
           processPlayerDaub(commanderID, payload.ok, payload.cardID, payload.value)
    \/ \E commanderID \in PlayCommanders, payload \in PlayPayloads :
           processPlayerUndoDaub(commanderID, payload.ok, payload.cardID, payload.value)
    \/ dispatchSpawn
    \/ \E subID \in SubIDs : goSend(subID)
    \/ \E subID \in SubIDs : goTimeout(subID)
    \/ \E subID \in SubIDs : goLoad(subID)
    \/ \E subID \in SubIDs : goStore(subID)
    \/ dispatchEventReturn
    \/ handlerReturn

\* The daub handlers with the phase cell and the subscriptions manager of a
\* game that p1 and p2 have joined.
InitDaub ==
    /\ PhaseInit
    /\ BallIdle
    /\ SubInit
    /\ CmdInit
    /\ CardInit
    /\ JoinInit
    /\ MgrInit
    /\ LockInit
    /\ ReplInit
    /\ LifeInit
    /\ CellsInit
    /\ PlayInit

SpecDaub == InitDaub /\ [][DaubNext]_vars

HostNext ==
    \/ \E newValue \in PlayPhases : setValueLock(1, newValue)
    \/ setValueBody(1)
    \/ \E recipientIDs \in RecipientFilters : subscribe({}, recipientIDs)
    \/ \E commanderID \in PlayCommanders : processAutomaticBall(commanderID)
    \/ dispatchSpawn
    \/ \E subID \in SubIDs : goSend(subID)
    \/ \E subID \in SubIDs : goTimeout(subID)
    \/ \E subID \in SubIDs : goLoad(subID)
    \/ \E subID \in SubIDs : goStore(subID)
    \/ dispatchEventReturn
    \/ handlerReturn
    \/ \E subID \in SubIDs : consumerReceive(subID)

\* processAutomaticBall with the phase cell, the ball registry and the
\* subscriptions manager of a game nobody has joined.
InitHost ==
    /\ PhaseInit
    /\ BallInit
    /\ SubInit
    /\ CmdInit
    /\ CardInit
    /\ JoinInit
    /\ MgrInit
    /\ LockInit
    /\ ReplInit
    /\ LifeInit
    /\ CellsInit
    /\ PlayIdle

SpecHost == InitHost /\ [][HostNext]_vars

(***************************************************************************)
(* Card registry: Start called by several goroutines, the cleanup callback *)
(* and the termination of the worker (src/unnamed/part_002, lines           *)
(* 136-181), with CheckOutCard and ReturnCard around them.  The            *)
(* equalizeEntrySurplus of Start is the one above; the ticker does not      *)
(* fire here.  A worker launched by Start is an element of workerPc.       *)
(***************************************************************************)
\* The registry variables that Start, the workers and ReturnCard leave alone.
lifeCardRest == <<coPc, coPlayer, coEntry, coResult, coCount, genPc, genCells, entryCount,
                  wPc, wCard, tickCount>>

\* Start, entry: status := cg.Status(), the error return for a terminated
\* registry and the return of cleanup for a running one
StartCall(t) ==
    /\ stPc[t] = "idle"
    /\ statusMtx = 0
    /\ stCalls < MaxStarts
    /\ stCalls' = stCalls + 1
    /\ IF Status = cardGenStatusTerminated
       THEN /\ stResult' = [stResult EXCEPT ![t] = "error"]
            /\ UNCHANGED stPc
       ELSE IF Status = cardGenStatusRunning
       THEN /\ stResult' = [stResult EXCEPT ![t] = "cleanup"]
            /\ UNCHANGED stPc
       ELSE /\ stResult' = [stResult EXCEPT ![t] = "none"]
            /\ stPc' = [stPc EXCEPT ![t] = "lock"]
    /\ UNCHANGED <<workerPc, returnChanCloses, cleanupCalls, callsAtExit, rcPc, rcCard,
                   rcResult, rcCalls, cardVars, exceptLife>>

\* Start after the status test: cg.statusMtx.Lock(), status = running, and
\* the call of equalizeEntrySurplus
StartLocked(t) ==
    /\ stPc[t] = "lock"
    /\ statusMtx = 0
    /\ startPc = "idle"
    /\ eqPc = "off"
    /\ statusMtx' = 1
    /\ status' = cardGenStatusRunning
    /\ startPc' = "equalize"
    /\ eqPc' = "test"
    /\ eqMode' = "start"
    /\ availableCards' = 0
    /\ stPc' = [stPc EXCEPT ![t] = "equalize"]
    /\ UNCHANGED <<stResult, stCalls, workerPc, returnChanCloses, cleanupCalls,
                   callsAtExit, rcPc, rcCard, rcResult, rcCalls, registeredEntries,
                   entriesMtx, returnChan, heldCards, lifeCardRest, exceptLife>>

\* Start after equalizeEntrySurplus returned: the ticker, the go statement
\* that launches a worker, and the return of cleanup
StartReturned(t) ==
    /\ stPc[t] = "equalize"
    /\ startPc = "returned"
    /\ startPc' = "idle"
    /\ stPc' = [stPc EXCEPT ![t] = "idle"]
    /\ stResult' = [stResult EXCEPT ![t] = "cleanup"]
    /\ workerPc' = Append(workerPc, "select")
    /\ UNCHANGED <<stCalls, returnChanCloses, cleanupCalls, callsAtExit, rcPc, rcCard,
                   rcResult, rcCalls, status, statusMtx, registeredEntries, entriesMtx,
                   returnChan, heldCards, eqPc, eqMode, availableCards, lifeCardRest,
                   exceptLife>>

\* The workers that wait at their select.
waitingWorkers == { w \in 1..Len(workerPc) : workerPc[w] = "select" }

\* cleanup(), called by a goroutine that Start returned it to: the send on
\* the unbuffered doneChan when a worker waits at its select (w is that
\* worker, which leaves its loop), else the default case (w = 0)
cleanup(t, w) ==
    /\ stResult[t] = "cleanup"
    /\ stPc[t] = "idle"
    /\ cleanupCalls < MaxCleanups
    /\ cleanupCalls' = cleanupCalls + 1
    /\ IF waitingWorkers = {}
       THEN /\ w = 0
            /\ UNCHANGED workerPc
       ELSE /\ w \in waitingWorkers
            /\ workerPc' = [workerPc EXCEPT ![w] = "exit"]
    /\ UNCHANGED <<stPc, stResult, stCalls, returnChanCloses, callsAtExit, rcPc, rcCard,
                   rcResult, rcCalls, cardVars, exceptLife>>

\* worker, select: case returnedCard := <-cg.returnChan, and
\* flushReturn(returnedCard) under entriesMtx
workerFlush(w) ==
    /\ w \in waitingWorkers
    /\ Len(returnChan) > 0
    /\ entriesMtx = 0
    /\ returnChan' = Tail(returnChan)
    /\ registeredEntries' = [i \in 1..Len(registeredEntries) |->
           IF firstIndexOfID(registeredEntries, Head(returnChan)) = i
           THEN [registeredEntries[i] EXCEPT !.active = FALSE]
           ELSE registeredEntries[i]]
    /\ UNCHANGED <<lifeVars, status, statusMtx, entriesMtx, heldCards, startPc, eqPc,
                   eqMode, availableCards, lifeCardRest, exceptLife>>

\* worker, the deferred function after the loop: statusMtx.Lock(), status =
\* terminated, close(cg.returnChan), which panics when the channel is closed
\* already, surplusTicker.Stop() and the deferred Unlock
workerExit(w) ==
    /\ w \in 1..Len(workerPc)
    /\ workerPc[w] = "exit"
    /\ statusMtx = 0
    /\ status' = cardGenStatusTerminated
    /\ callsAtExit' = IF status = cardGenStatusTerminated THEN callsAtExit
                      ELSE [co |-> coCount, rc |-> rcCalls]
    /\ IF returnChanCloses > 0
       THEN /\ workerPc' = [workerPc EXCEPT ![w] = "panic"]
            /\ UNCHANGED returnChanCloses
       ELSE /\ workerPc' = [workerPc EXCEPT ![w] = "terminated"]
            /\ returnChanCloses' = returnChanCloses + 1
    /\ UNCHANGED <<stPc, stResult, stCalls, cleanupCalls, rcPc, rcCard, rcResult, rcCalls,
                   statusMtx, registeredEntries, entriesMtx, returnChan, heldCards,
                   startPc, eqPc, eqMode, availableCards, lifeCardRest, exceptLife>>

\* The mutant of ReturnCardStatus: only the idle registry is refused.
ReturnCardIdleOnly(t, cardID) ==
    /\ rcPc[t] = "idle"
    /\ statusMtx = 0
    /\ rcCalls < MaxReturns
    /\ rcCalls' = rcCalls + 1
    /\ IF Status = cardGenStatusIdle
       THEN /\ rcResult' = [rcResult EXCEPT ![t] = [err |-> TRUE, status |-> Status]]
            /\ UNCHANGED <<rcPc, rcCard>>
       ELSE /\ rcResult' = [rcResult EXCEPT ![t] = [err |-> FALSE, status |-> Status]]
            /\ rcPc' = [rcPc EXCEPT ![t] = "send"]
            /\ rcCard' = [rcCard EXCEPT ![t] = cardID]
    /\ UNCHANGED <<stPc, stResult, stCalls, workerPc, returnChanCloses, cleanupCalls,
                   callsAtExit, cardVars, exceptLife>>

\* ReturnCard(card), entry: status := cg.Status() and the two error returns
ReturnCardStatus(t, cardID) ==
    /\ rcPc[t] = "idle"
    /\ statusMtx = 0
    /\ rcCalls < MaxReturns
    /\ rcCalls' = rcCalls + 1
    /\ IF Status = cardGenStatusIdle \/ Status = cardGenStatusTerminated
       THEN /\ rcResult' = [rcResult EXCEPT ![t] = [err |-> TRUE, status |-> Status]]
            /\ UNCHANGED <<rcPc, rcCard>>
       ELSE /\ rcResult' = [rcResult EXCEPT ![t] = [err |-> FALSE, status |-> Status]]
            /\ rcPc' = [rcPc EXCEPT ![t] = "send"]
            /\ rcCard' = [rcCard EXCEPT ![t] = cardID]
    /\ UNCHANGED <<stPc, stResult, stCalls, workerPc, returnChanCloses, cleanupCalls,
                   callsAtExit, cardVars, exceptLife>>

\* ReturnCard: cg.returnChan <- card, which waits while the buffer is full
\* and panics when the channel is closed; the return of nil
ReturnCardSend(t) ==
    /\ rcPc[t] = "send"
    /\ IF returnChanCloses > 0
       THEN /\ rcPc' = [rcPc EXCEPT ![t] = "panic"]
            /\ UNCHANGED <<returnChan, heldCards, rcCard>>
       ELSE /\ Len(returnChan) < returnChanCap
            /\ returnChan' = Append(returnChan, rcCard[t])
            /\ heldCards' = { held \in heldCards : held[1] # rcCard[t] }
            /\ rcPc' = [rcPc EXCEPT ![t] = "idle"]
            /\ rcCard' = [rcCard EXCEPT ![t] = 0]
    /\ UNCHANGED <<stPc, stResult, stCalls, workerPc, returnChanCloses, cleanupCalls,
                   callsAtExit, rcResult, rcCalls, status, statusMtx, registeredEntries,
                   entriesMtx, startPc, eqPc, eqMode, availableCards, lifeCardRest,
                   exceptLife>>

\* The goroutine that checks cards out and returns them, and the card it
\* returns: the first card of the registry.
LifePlayerThread == 1

LifeCardIDs == { 1 }

LifeNext ==
    \/ \E t \in CardThreads : StartCall(t)
    \/ \E t \in CardThreads : StartLocked(t)
    \/ eqTest
    \/ eqCount
    \/ eqPrune
    \/ \E g \in Generators : genLock(g)
    \/ \E g \in Generators, newCells \in generateCells : genTry(g, newCells)
    \/ \E g \in Generators : genAppend(g)
    \/ \E t \in CardThreads : StartReturned(t)
    \/ \E t \in CardThreads, w \in 0..MaxStarts : cleanup(t, w)
    \/ \E w \in 1..MaxStarts : workerFlush(w)
    \/ \E w \in 1..MaxStarts : workerExit(w)
    \/ CheckOutCard(LifePlayerThread, "p1")
    \/ coCountHistory(LifePlayerThread)
    \/ coRecycle(LifePlayerThread)
    \/ coActivate(LifePlayerThread)
    \/ \E cardID \in LifeCardIDs : ReturnCardStatus(LifePlayerThread, cardID)
    \/ ReturnCardSend(LifePlayerThread)

\* The card registry with the callers of Start and its workers.
InitLife ==
    /\ PhaseInit
    /\ BallIdle
    /\ SubInit
    /\ CmdInit
    /\ CardInit
    /\ JoinInit
    /\ MgrInit
    /\ LockInit
    /\ ReplInit
    /\ LifeInit
    /\ PlayIdle
    /\ CellsInit

SpecLife == InitLife /\ [][LifeNext]_vars

(***************************************************************************)
(* Card registry: the cleanup callback and the one worker that Start       *)
(* launched (src/unnamed/part_002, lines 142-147 and 158-178), with the    *)
(* worker's three select cases as modelled above.                          *)
(***************************************************************************)
\* cleanup(), called by the goroutine that Start returned it to: the send on
\* the unbuffered doneChan succeeds when the worker waits at its select, and
\* the worker takes its case <-cg.doneChan and leaves the loop; else the
\* default case, and nothing is sent
cleanupCall ==
    /\ startPc = "returned"
    /\ cleanupCalls < MaxCleanups
    /\ cleanupCalls' = cleanupCalls + 1
    /\ wPc' = IF wPc = "select" THEN "exit" ELSE wPc
    /\ UNCHANGED <<stPc, stResult, stCalls, workerPc, returnChanCloses, callsAtExit, rcPc,
                   rcCard, rcResult, rcCalls, status, statusMtx, registeredEntries,
                   entriesMtx, returnChan, entryCount, startPc, eqPc, eqMode,
                   availableCards, wCard, tickCount, genPc, genCells, coPc, coPlayer,
                   coEntry, coResult, coCount, heldCards, exceptLife>>

\* worker, the deferred function after the loop: statusMtx.Lock(), status =
\* terminated, close(cg.returnChan), surplusTicker.Stop(), Unlock
workerDeferred ==
    /\ wPc = "exit"
    /\ statusMtx = 0
    /\ status' = cardGenStatusTerminated
    /\ returnChanCloses' = returnChanCloses + 1
    /\ wPc' = "terminated"
    /\ UNCHANGED <<stPc, stResult, stCalls, workerPc, cleanupCalls, callsAtExit, rcPc,
                   rcCard, rcResult, rcCalls, statusMtx, registeredEntries,
                   entriesMtx, returnChan, entryCount, startPc, eqPc, eqMode,
                   availableCards, wCard, tickCount, genPc, genCells, coPc, coPlayer,
                   coEntry, coResult, coCount, heldCards, exceptLife>>

\* The goroutines that can be inside generateUniqueEntry.
StopGenerators == { LifePlayerThread, WorkerID }

StopNext ==
    \/ Start
    \/ eqTest
    \/ eqCount
    \/ eqPrune
    \/ \E g \in StopGenerators : genLock(g)
    \/ \E g \in StopGenerators, newCells \in generateCells : genTry(g, newCells)
    \/ \E g \in StopGenerators : genAppend(g)
    \/ CheckOutCard(LifePlayerThread, "p1")
    \/ coCountHistory(LifePlayerThread)
    \/ coRecycle(LifePlayerThread)
    \/ coActivate(LifePlayerThread)
    \/ \E cardID \in 1..entryCount : ReturnCard(cardID, "p1")
    \/ workerReceive
    \/ flushReturn
    \/ workerTick
    \/ cleanupCall
    \/ workerDeferred

\* The goroutines inside the registry run whenever they can: Start's caller
\* while it equalizes, and the worker at each of its steps.  Nothing obliges
\* a client to call CheckOutCard, ReturnCard or cleanup, and the ticker need
\* not fire within the time looked at.
StopFairness ==
    /\ WF_vars(eqTest)
    /\ WF_vars(eqCount)
    /\ WF_vars(eqPrune)
    /\ \A g \in StopGenerators :
          /\ WF_vars(genLock(g))
          /\ WF_vars(\E newCells \in generateCells : genTry(g, newCells))
          /\ WF_vars(genAppend(g))
    /\ WF_vars(coCountHistory(LifePlayerThread))
    /\ WF_vars(coRecycle(LifePlayerThread))
    /\ WF_vars(coActivate(LifePlayerThread))
    /\ WF_vars(workerReceive)
    /\ WF_vars(flushReturn)
    /\ WF_vars(workerDeferred)

SpecStopFair == InitCard /\ [][StopNext]_vars /\ StopFairness

(***************************************************************************)
(* JoinGame on a game whose card registry is stopped by the cleanup        *)
(* callback while players join (src/game/game.go, lines 159-247, with      *)
(* src/unnamed/part_002, lines 142-165).                                   *)
(***************************************************************************)
JoinStopNext ==
    \/ Start
    \/ eqTest
    \/ eqCount
    \/ \E g \in Generators : genLock(g)
    \/ \E g \in Generators, newCells \in generateCells : genTry(g, newCells)
    \/ \E g \in Generators : genAppend(g)
    \/ \E t \in CardThreads : coCountHistory(t)
    \/ \E t \in CardThreads : coRecycle(t)
    \/ \E t \in CardThreads : coActivate(t)
    \/ \E t \in JoinThreads, playerID \in JoinIDs : JoinGame(t, playerID)
    \/ \E t \in JoinThreads : joinCheckOut(t)
    \/ \E t \in JoinThreads : joinCardReturned(t)
    \/ cleanupCall
    \/ workerDeferred

SpecJoinStop == InitJoin /\ [][JoinStopNext]_vars

(***************************************************************************)
(* processHandReplacement (src/unnamed/part_008, lines 294-363), the       *)
(* handler of player_replace_cards, on the roster that JoinGame fills and  *)
(* the card registry above.  The handler holds g.mtx from entry to return; *)
(* its calls of ReturnCard and CheckOutCard are steps of their own because *)
(* the registry's worker and generator run between them.                   *)
(***************************************************************************)
\* The goroutine that runs the handler, as a caller of CheckOutCard.
ReplaceThread == LifePlayerThread

\* The goroutine that calls JoinGame here.
ReplaceJoinThread == ReplaceThread + 1

replJoinRest == <<bannedPlayerIDs, playerEntryCount, closurePlayerID, playerChanClosed,
                  leaveInvocations, joinPc, joinPlayer, joinCards, joinClosure,
                  joinRemaining, joinResult, joinCalls, leaveCalls>>

replPlayRest == <<cardPlayers, hPc, hCall, hCalls>>

\* matchedPlayer.Cards of the player, or the empty hand
handOf(entries, playerID) ==
    IF prevEntryIndex(entries, playerID) = 0 THEN << >>
    ELSE entries[prevEntryIndex(entries, playerID)].cards

\* processHandReplacement(playerID), entry: g.mtx.Lock(), the two rejected
\* IDs and the lookup of the player in the roster
processHandReplacement(playerID) ==
    /\ hrPc = "idle"
    /\ g_mtx = 0
    /\ startPc = "returned"
    /\ hrCalls < MaxReplaces
    /\ hrCalls' = hrCalls + 1
    /\ IF \/ playerID = hostID
          \/ playerID = systemID
          \/ prevEntryIndex(cardPlayerEntries, playerID) = 0
       THEN /\ hrResult' = [n |-> hrCalls + 1, err |-> TRUE]
            /\ UNCHANGED <<g_mtx, hrPc, hrPlayer, hrRemaining, hrIter, hrErrs, hrBefore>>
       ELSE /\ g_mtx' = HandlerID
            /\ hrPlayer' = playerID
            /\ hrRemaining' = handOf(cardPlayerEntries, playerID)
            /\ hrBefore' = handOf(cardPlayerEntries, playerID)
            /\ hrIter' = 0
            /\ hrErrs' = 0
            /\ hrPc' = IF handOf(cardPlayerEntries, playerID) = << >>
                       THEN "checkout" ELSE "return"
            /\ UNCHANGED hrResult
    /\ UNCHANGED <<cardPlayerEntries, replJoinRest, replPlayRest, hEvents, cardVars,
                   subVars, smVars, exceptRepl>>

\* The first loop, one iteration: err := g.cardRegistry.ReturnCard(card.ID),
\* which waits while returnChan is full; an error is appended to errs
replaceReturnCard ==
    /\ hrPc = "return"
    /\ statusMtx = 0
    /\ IF Status = cardGenStatusRunning
       THEN /\ ReturnCardCall(Head(hrRemaining))
            /\ UNCHANGED hrErrs
       ELSE /\ hrErrs' = hrErrs + 1
            /\ UNCHANGED <<status, statusMtx, registeredEntries, entriesMtx, returnChan,
                           entryCount, startPc, eqPc, eqMode, availableCards, wPc, wCard,
                           tickCount, genPc, genCells, coPc, coPlayer, coEntry, coResult,
                           heldCards>>
    /\ hrRemaining' = Tail(hrRemaining)
    /\ hrPc' = IF Tail(hrRemaining) = << >> THEN "checkout" ELSE "return"
    /\ UNCHANGED <<g_mtx, hrPlayer, hrIter, hrBefore, hrResult, hrCalls, coCount,
                   cardPlayerEntries, replJoinRest, replPlayRest, hEvents, subVars,
                   smVars, exceptRepl>>

\* The second loop, one iteration: card, err := g.cardRegistry.CheckOutCard(playerID)
replaceCheckOut ==
    /\ hrPc = "checkout"
    /\ coPc[ReplaceThread] = "idle"
    /\ CheckOutCardCall(ReplaceThread, hrPlayer)
    /\ hrPc' = "await"
    /\ UNCHANGED <<g_mtx, hrPlayer, hrRemaining, hrIter, hrErrs, hrBefore, hrResult,
                   hrCalls, coCount, cardPlayerEntries, replJoinRest, replPlayRest,
                   hEvents, subVars, smVars, exceptRepl>>

\* The second loop after CheckOutCard returned: the error is appended to
\* errs, else the card is appended to matchedPlayer.Cards; then i++
replaceCardReturned ==
    /\ hrPc = "await"
    /\ coPc[ReplaceThread] = "idle"
    /\ coResult' = [coResult EXCEPT ![ReplaceThread] = [card |-> 0, err |-> FALSE]]
    /\ coPlayer' = [coPlayer EXCEPT ![ReplaceThread] = "p1"]
    /\ IF coResult[ReplaceThread].err
       THEN /\ hrErrs' = hrErrs + 1
            /\ UNCHANGED cardPlayerEntries
       ELSE /\ cardPlayerEntries' = [cardPlayerEntries EXCEPT
                   ![prevEntryIndex(cardPlayerEntries, hrPlayer)].cards =
                       Append(@, coResult[ReplaceThread].card)]
            /\ UNCHANGED hrErrs
    /\ hrIter' = hrIter + 1
    /\ hrPc' = IF hrIter + 1 < MaxCards THEN "checkout" ELSE "dispatch"
    /\ UNCHANGED <<g_mtx, hrPlayer, hrRemaining, hrBefore, hrResult, hrCalls, status,
                   statusMtx, registeredEntries, entriesMtx, returnChan, entryCount,
                   startPc, eqPc, eqMode, availableCards, wPc, wCard, tickCount, genPc,
                   genCells, coPc, coEntry, coCount, heldCards, replJoinRest,
                   replPlayRest, hEvents, subVars, smVars, exceptRepl>>

\* After the loops: the Error event when errs is not empty, else the Update
\* event, addressed to the player
replaceDispatch ==
    /\ hrPc = "dispatch"
    /\ sm_mtx = 0
    /\ rwmtx = 0
    /\ eventCount < MaxDispatches
    /\ dispatchEventBy(IF hrErrs # 0 THEN EventTypeError ELSE EventTypeUpdate,
                       hrPlayer, p_value, { hrPlayer })
    /\ hrPc' = "dispatching"
    /\ UNCHANGED <<g_mtx, hrPlayer, hrRemaining, hrIter, hrErrs, hrBefore, hrResult,
                   hrCalls, cardPlayerEntries, replJoinRest, replPlayRest, cardVars,
                   exceptRepl>>

\* The return of the handler after dispatchEvent returned: the joined error
\* or nil, and the deferred g.mtx.Unlock()
replaceReturn ==
    /\ hrPc = "dispatching"
    /\ dMode = "none"
    /\ hrResult' = [n |-> hrCalls, err |-> hrErrs # 0]
    /\ g_mtx' = 0
    /\ hrPc' = "idle"
    /\ UNCHANGED <<hrPlayer, hrRemaining, hrIter, hrErrs, hrBefore, hrCalls,
                   cardPlayerEntries, replJoinRest, replPlayRest, hEvents, cardVars,
                   subVars, smVars, exceptRepl>>

\* The players join, the worker handles the returned cards, and the
\* handler is called for p1 and for the host; nobody has subscribed.
ReplaceNext ==
    \/ Start
    \/ eqTest
    \/ eqCount
    \/ \E g \in Generators : genLock(g)
    \/ \E g \in Generators, newCells \in generateCells : genTry(g, newCells)
    \/ \E g \in Generators : genAppend(g)
    \/ \E t \in CardThreads : coCountHistory(t)
    \/ \E t \in CardThreads : coRecycle(t)
    \/ \E t \in CardThreads : coActivate(t)
    \/ workerReceive
    \/ flushReturn
    \/ \E playerID \in { "p1", "p2" } : JoinGame(ReplaceJoinThread, playerID)
    \/ joinCheckOut(ReplaceJoinThread)
    \/ joinCardReturned(ReplaceJoinThread)
    \/ \E playerID \in { "p1", hostID } : processHandReplacement(playerID)
    \/ replaceReturnCard
    \/ replaceCheckOut
    \/ replaceCardReturned
    \/ replaceDispatch
    \/ dispatchEventReturn
    \/ replaceReturn

SpecReplace == InitJoin /\ [][ReplaceNext]_vars

(***************************************************************************)
(* The locks of subscriptionsManager (src/game/subscriptionsmanager.go),   *)
(* of Game.SubscribeToAllEvents (src/game/game.go) and of                  *)
(* CardRegistry.Status (src/unnamed/part_002).  sync.Mutex is not          *)
(* reentrant: a Lock by the goroutine that holds the mutex waits like any  *)
(* other.  A section that locks and unlocks without waiting in between is  *)
(* one step.                                                               *)
(***************************************************************************)
LockThreads == 1..NumLockThreads

\* A GamePhase that is none of AllGamePhases: the zero value of the type
UnknownPhase == ""

LockPhases == AllGamePhases \cup { UnknownPhase }

\* No fatal error of the runtime has ended the process.
lockRunning == \A t \in LockThreads : lkPc[t] # "fatal"

exceptGameLock == <<phaseVars, ballVars, subVars, g_phase, cmdOnlyVars, cardVars,
                    joinVars, dispVars, smVars, mgrVars, cellVars, playVars, lifeVars,
                    replVars>>

\* dispatchEvent(event), lines 42-54: sm.mtx.Lock(); the lookup of
\* event.Phase in sm.subs, with the return of the error for a phase that is
\* no key, which leaves sm.mtx locked; else the copy of the subscribers and
\* sm.mtx.Unlock()
smDispatchEvent(t, phase) ==
    /\ lockRunning
    /\ lkPc[t] = "idle"
    /\ lkCalls < MaxLockCalls
    /\ smMtx = 0
    /\ lkCalls' = lkCalls + 1
    /\ IF phase \notin DOMAIN smSubs
       THEN /\ smMtx' = t
            /\ lkResult' = [lkResult EXCEPT ![t] = "err"]
            /\ UNCHANGED <<lkPc, lkCopy>>
       ELSE /\ lkCopy' = [lkCopy EXCEPT ![t] = smSubs[phase]]
            /\ lkPc' = [lkPc EXCEPT ![t] = "broadcast"]
            /\ lkResult' = [lkResult EXCEPT ![t] = "none"]
            /\ UNCHANGED smMtx
    /\ UNCHANGED <<smSubs, exceptLock>>

\* dispatchEvent, lines 56-79: one goroutine per copied subscriber sends the
\* event or gives up after two seconds (delivered of them find a reader);
\* after wg.Wait() the error when a send failed, else nil.  The tokens of
\* routineBuffer outnumber the subscribers here.
smDispatchWait(t, delivered) ==
    /\ lockRunning
    /\ lkPc[t] = "broadcast"
    /\ delivered \in 0..lkCopy[t]
    /\ lkResult' = [lkResult EXCEPT ![t] = IF delivered # lkCopy[t] THEN "err" ELSE "nil"]
    /\ lkCopy' = [lkCopy EXCEPT ![t] = 0]
    /\ lkPc' = [lkPc EXCEPT ![t] = "idle"]
    /\ UNCHANGED <<smMtx, smSubs, lkCalls, exceptLock>>

\* subscribeToPhaseEvents(phase): under sm.mtx, with the deferred Unlock, the
\* new channel is appended to sm.subs[phase], which makes phase a key
subscribeToPhaseEvents(t, phase) ==
    /\ lockRunning
    /\ lkPc[t] = "idle"
    /\ lkCalls < MaxLockCalls
    /\ smMtx = 0
    /\ lkCalls' = lkCalls + 1
    /\ smSubs' = [gp \in DOMAIN smSubs \cup { phase } |->
                     IF gp = phase
                     THEN (IF phase \in DOMAIN smSubs THEN smSubs[phase] ELSE 0) + 1
                     ELSE smSubs[gp]]
    /\ lkResult' = [lkResult EXCEPT ![t] = "nil"]
    /\ UNCHANGED <<smMtx, lkPc, lkCopy, exceptLock>>

\* subscribeToAllEvents: sm.mtx.Lock() at line 121, then the call of
\* subscribeToPhaseEvents for the first phase, whose sm.mtx.Lock() at line 86
\* waits for the mutex the caller holds
subscribeToAllEvents(t) ==
    /\ lockRunning
    /\ lkPc[t] = "idle"
    /\ lkCalls < MaxLockCalls
    /\ smMtx = 0
    /\ lkCalls' = lkCalls + 1
    /\ smMtx' = t
    /\ lkPc' = [lkPc EXCEPT ![t] = "relock"]
    /\ lkResult' = [lkResult EXCEPT ![t] = "none"]
    /\ UNCHANGED <<smSubs, lkCopy, exceptLock>>

\* Game.SubscribeToAllEvents: g.mtx.Lock(), then the call of
\* g.SubscribeToPhaseEvents for the first phase, whose g.mtx.Lock() waits for
\* the mutex the caller holds
SubscribeToAllEvents(t) ==
    /\ lockRunning
    /\ lkPc[t] = "idle"
    /\ lkCalls < MaxLockCalls
    /\ g_mtx = 0
    /\ lkCalls' = lkCalls + 1
    /\ g_mtx' = t
    /\ lkPc' = [lkPc EXCEPT ![t] = "relockGame"]
    /\ lkResult' = [lkResult EXCEPT ![t] = "none"]
    /\ UNCHANGED <<smMtx, smSubs, lkCopy, exceptGameLock>>

\* CardRegistry.Status() with no writer holding or awaiting statusMtx:
\* RLock() succeeds, the status is read, and the deferred Unlock() of the
\* RWMutex that is not locked for writing is a fatal error of the runtime
\* ("sync: Unlock of unlocked RWMutex"), which ends the process
StatusUnlock(t) ==
    /\ lockRunning
    /\ lkPc[t] = "idle"
    /\ lkCalls < MaxLockCalls
    /\ statusMtx = 0
    /\ lkCalls' = lkCalls + 1
    /\ lkPc' = [lkPc EXCEPT ![t] = "fatal"]
    /\ lkResult' = [lkResult EXCEPT ![t] = "none"]
    /\ UNCHANGED <<smMtx, smSubs, lkCopy, exceptLock>>

LockNext ==
    \/ \E t \in LockThreads, phase \in LockPhases : smDispatchEvent(t, phase)
    \/ \E t \in LockThreads, delivered \in 0..MaxLockCalls : smDispatchWait(t, delivered)
    \/ \E t \in LockThreads, phase \in LockPhases : subscribeToPhaseEvents(t, phase)
    \/ \E t \in LockThreads : subscribeToAllEvents(t)
    \/ \E t \in LockThreads : SubscribeToAllEvents(t)
    \/ \E t \in LockThreads : StatusUnlock(t)

\* A game, its subscriptionsManager and its card registry as constructed.
SpecLocks == InitCard /\ [][LockNext]_vars

(***************************************************************************)
(* C5                                                                      *)
(***************************************************************************)
\* A step taken while the cell holds a terminal phase: the value stays and a
\* setValue that returns in this step returns the error.
TerminalPhaseStep ==
    p_value \in TerminalPhases =>
        /\ p_value' = p_value
        /\ \A t \in PhaseThreads :
              (phasePc[t] = "locked" /\ phasePc'[t] = "idle") => phaseErr'[t] = "err"

\* C5: once the phase cell holds GameOver or InitializationFailure, every
\* setValue that completes returns an error and the value never changes,
\* whatever the interleaving of the callers and whatever value they ask for.
C5_TerminalPhaseAbsorbing ==
    [][TerminalPhaseStep]_vars

\* A setValue call was refused in each of the two terminal phases' kind of
\* state: the cell is terminal and some caller got the error.
C5_Witness ==
    /\ p_value = GamePhaseInitializationFailure
    /\ \E t \in PhaseThreads :
          phaseErr[t] = "err" /\ phaseArg[t] \notin TerminalPhases

(***************************************************************************)
(* C6                                                                      *)
(***************************************************************************)
SeqRange(s) == { s[i] : i \in 1..Len(s) }

\* C6: called and uncalled share no ball and together hold exactly the balls
\* 1..NumBalls, each once, after construction, Reset and every call.
C6_BallPartition ==
    /\ SeqRange(called) \cap SeqRange(uncalled) = {}
    /\ SeqRange(called) \cup SeqRange(uncalled) = 1..NumBalls
    /\ Len(called) + Len(uncalled) = NumBalls

(***************************************************************************)
(* C2, C3, C4                                                              *)
(***************************************************************************)
\* The delivery rule as the specification words it.
MatchesRule(subscription, event) ==
    /\ \/ subscription.filteredPhases = {}
       \/ event.Phase \in subscription.filteredPhases
    /\ \/ event.RecipientIDs = {}
       \/ subscription.recipientIDs = {}
       \/ event.RecipientIDs \cap subscription.recipientIDs # {}

MatchingIDs(d) == { entry.id : entry \in { e \in d.subs : MatchesRule(e, d.event) } }

\* The events a subscriber has been handed so far: read, then still buffered.
Stream(subID) == recv[subID] \o eventChan[subID]

Copies(subID, event) ==
    Cardinality({ i \in 1..Len(Stream(subID)) : Stream(subID)[i] = event })

\* C2: a dispatch sends the event to exactly the subscriptions that the rule
\* (no phase filter or phase listed) and (broadcast, or no recipient filter,
\* or a shared recipient) selects.
C2_DeliveryRule ==
    \A i \in 1..Len(dispatchLog) :
        dispatchLog[i].started = MatchingIDs(dispatchLog[i])

\* C3: after a dispatch that returned nil every subscription matching the
\* event holds exactly one copy of it, and every subscriber's stream is in the
\* order of the dispatchEvent calls, without duplicates.
C3_ExactlyOnceInOrder ==
    /\ \A i \in 1..Len(dispatchLog) :
          ~dispatchLog[i].err =>
              \A subID \in MatchingIDs(dispatchLog[i]) :
                  Copies(subID, dispatchLog[i].event) = 1
    /\ \A subID \in SubIDs :
          \A i, j \in 1..Len(Stream(subID)) :
              i < j => Stream(subID)[i].ID < Stream(subID)[j].ID

\* Two dispatches returned nil and one subscriber matching both has read the
\* first event and holds the second.
C3_Witness ==
    /\ Len(dispatchLog) = 2
    /\ ~dispatchLog[1].err
    /\ ~dispatchLog[2].err
    /\ \E subID \in MatchingIDs(dispatchLog[1]) \cap MatchingIDs(dispatchLog[2]) :
          /\ Len(recv[subID]) = 1
          /\ Len(eventChan[subID]) = 1

\* C4: a dispatch returns the error exactly when the send to some matching
\* subscription timed out; the error then reports k timed out of n matching.
C4_PartialFailure ==
    \A i \in 1..Len(dispatchLog) :
        LET d == dispatchLog[i]
            k == Cardinality(d.timedOut \cap MatchingIDs(d))
            n == Cardinality(MatchingIDs(d))
        IN /\ d.err <=> k > 0
           /\ d.err => (d.unfulfilled = k /\ d.max = n)

(***************************************************************************)
(* C1                                                                      *)
(***************************************************************************)
\* C1: the loop handles the accepted commands one at a time, each once and
\* in the order of acceptance, and no Command call has returned before the
\* handler of its command finished.
C1_CommandsSerialized ==
    /\ Len(handled) <= Len(accepted)
    /\ \A i \in 1..Len(handled) : handled[i] = accepted[i]
    /\ \A i, j \in 1..Len(handled) : i # j => handled[i] # handled[j]
    /\ Len(accepted) - Cardinality(returned) <= 1
    /\ \A id \in returned : id \in SeqRange(handled)
    /\ \A t \in CmdThreads :
          cmdPc[t] = "received" => cmdSession[t].id \in SeqRange(handled)

\* Commands of two different callers were handled and answered, and a
\* further command is waiting in the loop.
C1_Witness ==
    /\ Cardinality(returned) >= 2
    /\ Len(handled) >= 2
    /\ loopPc = "process"
    /\ \E t, u \in CmdThreads :
          t # u /\ cmdPc[t] = "wait" /\ cmdResult[u] = "nil"

(***************************************************************************)
(* C7                                                                      *)
(***************************************************************************)
\* The cells two grids share: same row, same column, same value, the free
\* space not counted.
Overlap(cellsA, cellsB) ==
    Cardinality({ <<i, j>> \in (1..5) \X (1..5) :
                    ~(i = 3 /\ j = 3) /\ cellsA[i][j] = cellsB[i][j] })

RosterIDsUnique ==
    \A i, j \in 1..Len(cardPlayerEntries) :
        i # j => cardPlayerEntries[i].playerID # cardPlayerEntries[j].playerID

\* A JoinGame call for a player who is in the roster, in a game that accepts
\* the call: it returns the entry the roster holds and touches nothing else.
JoinAgainStep ==
    \A t \in JoinThreads, playerID \in PlayerIDs :
        ( /\ JoinGame(t, playerID)
          /\ g_phase # GamePhaseGameOver
          /\ \E i \in 1..Len(cardPlayerEntries) :
                cardPlayerEntries[i].playerID = playerID )
        => /\ joinPc'[t] = "idle"
           /\ ~joinResult'[t].err
           /\ \E i \in 1..Len(cardPlayerEntries) :
                 /\ cardPlayerEntries[i].playerID = playerID
                 /\ joinResult'[t].entry = cardPlayerEntries[i].id
           /\ UNCHANGED <<cardPlayerEntries, playerEntryCount, playerChanClosed, cardVars>>

\* C8: JoinGame for an ID already in the roster returns the existing player
\* and leaveGame callback, checks out no card and creates no channel; the
\* roster never holds two entries with the same player ID.
C8_JoinIdempotent ==
    [][JoinAgainStep /\ RosterIDsUnique']_vars

\* Two different callers were given the same, only player entry.
C8_Witness ==
    /\ playerEntryCount = 1
    /\ Len(cardPlayerEntries) = 1
    /\ \E t, u \in JoinThreads :
          /\ t # u
          /\ joinPc[t] = "idle" /\ joinPc[u] = "idle"
          /\ joinPlayer[t] = joinPlayer[u]
          /\ joinResult[t] = [err |-> FALSE, entry |-> 1]
          /\ joinResult[u] = [err |-> FALSE, entry |-> 1]

\* An invocation of a leaveGame closure that has been invoked before.
LeaveAgainStep ==
    \A t \in JoinThreads, e \in PlayerEntryIDs :
        (leaveGame(t, e) /\ leaveInvocations[e] > 0)
        => /\ joinPc'[t] = "idle"
           /\ UNCHANGED <<cardPlayerEntries, playerChanClosed, cardVars>>

\* C9: every invocation of a leaveGame callback after its first changes
\* nothing in the roster or the card registry and closes no channel.
C9_LeaveSingleUse ==
    [][LeaveAgainStep]_vars

\* A JoinGame call that the claim says is rejected.
RejectedJoinStep ==
    \A t \in JoinThreads, playerID \in JoinIDs :
        ( /\ JoinGame(t, playerID)
          /\ \/ g_phase \in TerminalPhases
             \/ playerID = hostID
             \/ playerID = systemID
             \/ playerID \in bannedPlayerIDs )
        => /\ joinPc'[t] = "idle"
           /\ joinResult'[t].err
           /\ UNCHANGED <<cardPlayerEntries, playerEntryCount, playerChanClosed, cardVars>>

\* C10: JoinGame returns an error and changes no game state when the phase
\* is terminal, when the ID is the host's or the system's, or when the ID is
\* on the banned list.
C10_JoinRejected ==
    [][RejectedJoinStep]_vars

(***************************************************************************)
(* C11, C12                                                                *)
(***************************************************************************)
\* C11: a Command call returns nil only when the error its handler produced,
\* which the call read from its reply channel, is nil.
C11_ErrorPropagated ==
    \A t \in CmdThreads :
        (cmdPc[t] = "idle" /\ cmdResult[t] = "nil") => cmdErr[t] = "nil"

\* The loop waits for g.mtx inside processSystemDispose while the holder of
\* g.mtx, the Command call that sent the command, waits for the loop's reply.
DisposeNeverHandled ==
    /\ loopPc = "mtxLock"
    /\ g_mtx # 0
    /\ cmdPc[g_mtx] = "wait"
    /\ cmdSession[g_mtx].id = loopSession.id

\* C12: a system_dispose of the system is handled, no Command call is left
\* waiting for ever, and once the game is disposed a Command call returns an
\* error and sends nothing on the closed command channel.
C12_FailFastAfterDispose ==
    /\ ~DisposeNeverHandled
    /\ \A t \in CmdThreads : cmdPc[t] # "panic"
    /\ gameDisposed =>
          \A t \in CmdThreads :
              (cmdPc[t] = "idle" /\ cmdSession[t].id \notin SeqRange(handled)
                 /\ cmdResult[t] # "none") => cmdResult[t] = "err"

(***************************************************************************)
(* C13, C16, C17, C18                                                      *)
(***************************************************************************)
\* A step taken after a dispose call has returned.
AfterDisposeStep ==
    disposeReturns > 0 =>
        /\ subCount' = subCount
        /\ subs' = subs
        /\ dMode' # "event"
        /\ \A subID \in SubIDs :
              recv'[subID] \o eventChan'[subID] = recv[subID] \o eventChan[subID]

\* C13: after dispose has returned, subscribe creates no stream and adds no
\* subscription, and dispatchEvent returns its error without entering
\* dispatchUnsafe: it delivers nothing and waits for nothing.
C13_InertAfterDispose ==
    [][AfterDisposeStep]_vars

\* C16: for a subscriber that has read nothing from its stream, every dispatch
\* that sent to it timed out for it and returned the error, the first such
\* dispatch included; the other subscribers a dispatch sent to without a
\* timeout hold the event.
C16_SlowSubscriberFails ==
    /\ \A subID \in SubIDs :
          recv[subID] = << >> =>
              \A i \in 1..Len(dispatchLog) :
                  subID \in dispatchLog[i].started =>
                      /\ subID \in dispatchLog[i].timedOut
                      /\ dispatchLog[i].err
    /\ \A i \in 1..Len(dispatchLog) :
          \A subID \in dispatchLog[i].started \ dispatchLog[i].timedOut :
              Copies(subID, dispatchLog[i].event) = 1

\* A dispose call waits for a token of sm.routineBuffer that nobody holds:
\* in its final loop, or in the loop of dispatchUnsafe.
DisposeBlocked ==
    \/ dMode = "drain"
    \/ /\ dMode = "dispose"
       /\ dPending # << >>
       /\ routineBuffer = 0
       /\ \A subID \in SubIDs : gPc[subID] \in { "none", "done" }

\* C17: no dispose call is left waiting for ever, and when a dispose call has
\* returned no goroutine of a dispatch is running and sm.routineBuffer holds
\* no token: the call received all of them.
C17_DisposeReturnsDrained ==
    /\ ~DisposeBlocked
    /\ disposeReturns > 0 =>
          /\ routineBuffer = 0
          /\ \A subID \in SubIDs : gPc[subID] = "none"

\* A dispose call made after a dispose call has returned.
DisposeAgainStep ==
    (dispose /\ disposeReturns > 0) =>
        /\ disposeReturns' = disposeReturns + 1
        /\ UNCHANGED <<subs, sm_mtx, eventCount, dEvent, eventChan, chanClosed,
                       disposedChanClosed, routineBuffer>>

\* C18: a dispose call after the first does nothing and returns: it
\* dispatches no event and closes no channel; no channel is ever closed twice.
C18_DisposeIdempotent ==
    [][DisposeAgainStep /\ disposedChanClosed' <= 1
         /\ \A subID \in SubIDs : chanClosed'[subID] <= 1]_vars

(***************************************************************************)
(* C14, C15: Manager.Dispose and the unsubscribe closures                  *)
(***************************************************************************)
\* The subscriptions handed out by Subscribe so far.
HandedOut == 1..(mNextID - 1)

\* A step in which a Dispose call returns leaves an empty list and every
\* stream handed out so far closed.
DisposeReturnStep ==
    mdReturns' > mdReturns =>
        /\ mSubs' = << >>
        /\ \A id \in 1..(mNextID' - 1) : mChanCloses'[id] > 0

\* C14: whatever Subscribe calls run concurrently, when Dispose returns the
\* subscription list is empty and every stream handed out by Subscribe is
\* closed.
C14_DisposeLeavesNothingOpen == [][DisposeReturnStep]_vars

\* C15: the stream of a subscription is closed at most once, and once an
\* invocation of its unsubscribe closure has returned the subscription is off
\* the list and its stream has been closed exactly once.
C15_UnsubscribeClosesOnce ==
    \A id \in HandedOut :
        /\ mChanCloses[id] <= 1
        /\ unsubReturned[id] =>
               /\ mChanCloses[id] = 1
               /\ \A i \in 1..Len(mSubs) : mSubs[i].id # id

(***************************************************************************)
(* C19, C20: the card registry's per-player limit and recycling            *)
(***************************************************************************)
\* C19: no player's ID is recorded on more than MaxCards entries of the
\* registry, also when CheckOutCard calls of one player run concurrently.
C19_AtMostMaxCards ==
    \A playerID \in PlayerIDs :
        playerCards(registeredEntries, playerID) <= MaxCards

\* The entry lists the player in its prevPlayerIDs.
listsPlayer(entry, playerID) ==
    \E k \in 1..Len(entry.prevPlayerIDs) : entry.prevPlayerIDs[k] = playerID

\* One step of the registry, as far as recycling goes:
\*  - when the worker has processed the return of a card, the card's entry is
\*    inactive and lists the same players as before;
\*  - checkOutRecycledEntry gives a player only an entry that was inactive and
\*    did not list the player, and leaves it active and listing the player;
\*  - the other way to a card goes through an entry generateUniqueEntry has
\*    just made, whose ID no entry had before.
RecycleStep ==
    /\ (wPc = "flush" /\ wPc' = "select") =>
           /\ Len(registeredEntries') = Len(registeredEntries)
           /\ \A i \in 1..Len(registeredEntries) :
                  /\ registeredEntries'[i].prevPlayerIDs = registeredEntries[i].prevPlayerIDs
                  /\ registeredEntries[i].id = wCard => ~registeredEntries'[i].active
    /\ \A t \in CardThreads :
           (coPc[t] = "recycle" /\ coPc'[t] = "idle") =>
               \E i \in 1..Len(registeredEntries) :
                   /\ registeredEntries[i].id = coResult'[t].card
                   /\ ~registeredEntries[i].active
                   /\ ~listsPlayer(registeredEntries[i], coPlayer[t])
                   /\ registeredEntries'[i].active
                   /\ listsPlayer(registeredEntries'[i], coPlayer[t])
    /\ \A t \in CardThreads :
           (coPc[t] = "gen" /\ coPc'[t] = "activate") =>
               \A i \in 1..Len(registeredEntries) :
                   registeredEntries[i].id # coEntry'[t]
    /\ \A t \in CardThreads :
           (coPc[t] = "activate" /\ coPc'[t] = "idle") =>
               coResult'[t].card = coEntry[t]

NonSystemDisposeStep ==
    /\ ( /\ loopPc = "process"
         /\ loopSession.type = "system_dispose"
         /\ loopSession.commander # systemID
         /\ loopPc' # "process" ) =>
           /\ loopErr' = "err"
           /\ UNCHANGED <<dispVars, cardVars, subVars, smVars>>
    /\ \A t \in CmdThreads :
           ( /\ cmdPc[t] = "received"
             /\ cmdPc'[t] = "idle"
             /\ cmdSession[t].type = "system_dispose"
             /\ cmdSession[t].commander # systemID ) =>
               cmdResult'[t] = "err"

\* C28: system_dispose issued with a commander ID other than the system ID
\* returns an error and tears nothing down.
C28_NonSystemDisposeRefused == [][NonSystemDisposeStep]_vars

(***************************************************************************)
(* C30                                                                     *)
(***************************************************************************)
\* C30: every Command call that has sent its command eventually returns.
C30_EveryCommandReturns ==
    \A t \in CmdThreads : (cmdPc[t] = "send") ~> (cmdPc[t] = "idle")

(***************************************************************************)
(* C23, C24                                                                *)
(***************************************************************************)
\* A NextAutomaticCall made when NumBalls balls have been drawn in the round
\* returns an error and changes neither called nor uncalled.
ExhaustedCallStep ==
    ( /\ drawn = NumBalls
      /\ ballResult'.op = "NextAutomaticCall"
      /\ ballResult' # ballResult ) =>
        /\ ballResult'.err
        /\ called' = called
        /\ uncalled' = uncalled

\* C23: after all the balls of a round have been drawn, by automatic and
\* manual calls in any mix, the next NextAutomaticCall returns an error and
\* leaves called and uncalled unchanged.
C23_ExhaustedCallFails == [][ExhaustedCallStep]_vars

\* All balls were drawn, some by manual and some by automatic calls, and a
\* further NextAutomaticCall has returned its error.
C23_Witness ==
    /\ drawn = NumBalls
    /\ Len(called) > 0
    /\ Len(called) < NumBalls
    /\ ballResult = noMoreBalls

\* A Reset leaves the registry as newBallRegistry left it: called empty,
\* uncalled the permutation of construction, the shuffler as far into its
\* generator's sequence as after construction.
ResetStep ==
    ballResult'.op = "Reset" =>
        /\ called' = << >>
        /\ uncalled' = freshUncalled
        /\ shufflerDraws' = NumBalls - 1

\* C24: after any sequence of calls Reset leaves the registry in the state of
\* a freshly constructed registry with the same seed, so the automatic calls
\* that follow repeat the ball sequence of construction.
C24_ResetIsFresh == [][ResetStep]_vars

(***************************************************************************)
(* C29                                                                     *)
(***************************************************************************)
\* C29: a grid of generateCells has 5 rows of 5 cells, the free space at
\* (2,2) and nowhere else, in column j only values of 15j+1..15j+15, and no
\* value twice in a column, whatever the shuffles drew.
C29_GridShape ==
    cgGrid # << >> =>
        /\ Len(cgGrid) = 5
        /\ \A i \in 1..5 : Len(cgGrid[i]) = 5
        /\ \A i \in 1..5, j \in 1..5 :
               /\ (cgGrid[i][j] = FreeSpace) <=> (i = 3 /\ j = 3)
               /\ cgGrid[i][j] # FreeSpace =>
                      /\ cgGrid[i][j] >= 15 * (j - 1) + 1
                      /\ cgGrid[i][j] <= 15 * (j - 1) + 15
               /\ \A i2 \in 1..5 : i2 # i => cgGrid[i2][j] # cgGrid[i][j]

\* A grid whose columns were shuffled by different draws.
C29_Witness ==
    /\ cgGrid # << >>
    /\ cgDraws[1] # cgDraws[2]
    /\ cgGrid[1][1] # 1
    /\ cgGrid[1][2] = 16

(***************************************************************************)
(* C25, C26: the daub handlers                                             *)
(***************************************************************************)
\* The step is a call of one of the two daub handlers.
DaubCallStep ==
    /\ hCalls' = hCalls + 1
    /\ hCall'.handler \in { "player_daub", "player_undo_daub" }

\* The cells of the card cardID in the roster, or << >>.
cellsOfCard(roster, commanderID, cardID) ==
    LET p == playerIndex(roster, commanderID)
        c == IF p = 0 THEN 0 ELSE cardIndex(roster[p].cards, cardID)
    IN IF c = 0 THEN << >> ELSE roster[p].cards[c].Cells

\* The roster with Daubed set to daubValue on every cell of the commander's
\* card cardID whose Number is the value.
withDaub(roster, commanderID, cardID, value, daubValue) ==
    LET p == playerIndex(roster, commanderID)
        c == cardIndex(roster[p].cards, cardID)
    IN [roster EXCEPT ![p].cards[c].Cells =
           [i \in 1..5 |-> [j \in 1..5 |->
               IF @[i][j].Number = value
               THEN [Number |-> value, Daubed |-> daubValue]
               ELSE @[i][j]]]]

\* A daub call by a player of the roster, with a payload that parses, for one
\* of their cards and a value of that card returns no error and sets Daubed on the cell with the value.
DaubOnCardStep ==
    ( /\ DaubCallStep
      /\ hCall'.payloadOk
      /\ cellsOfCard(cardPlayers, hCall'.commander, hCall'.cardID) # << >>
      /\ \E i \in 1..5, j \in 1..5 :
            cellsOfCard(cardPlayers, hCall'.commander, hCall'.cardID)[i][j].Number
                = hCall'.value ) =>
        /\ hCall'.err = FALSE
        /\ cardPlayers' = withDaub(cardPlayers, hCall'.commander, hCall'.cardID,
                                   hCall'.value, hCall'.handler = "player_daub")

\* C25: a player_daub (player_undo_daub) by a player in the roster, for one
\* of that player's cards and a value on that card, returns no error and sets
\* Daubed to true (false) on exactly the cell with that value, for the values
\* of every column and for the free space.
C25_DaubSetsTheCell == [][DaubOnCardStep]_vars

\* A daub call dispatches one event, to the commander only, whose type is
\* Update when the handler returns no error and Error when it returns one.
DaubEventStep ==
    DaubCallStep =>
        /\ Len(hEvents') = Len(hEvents) + 1
        /\ SubSeq(hEvents', 1, Len(hEvents)) = hEvents
        /\ hEvents'[Len(hEvents')].RecipientIDs = { hCall'.commander }
        /\ hEvents'[Len(hEvents')].Type =
               IF hCall'.err THEN EventTypeError ELSE EventTypeUpdate

\* C26: each player_daub / player_undo_daub emits exactly one event, addressed
\* only to the commander: Update when the handler succeeded, Error when it
\* failed.
C26_DaubEventMatchesOutcome == [][DaubEventStep]_vars

(***************************************************************************)
(* C27: host_request_ball                                                  *)
(***************************************************************************)
\* A call of processAutomaticBall: refused with the registry and the events
\* untouched unless the commander is the host and the phase is Calling; when
\* it returns no error, the last ball of uncalled has moved to called and one
\* Update event for everybody was dispatched.
HostRequestBallStep ==
    ( /\ hCalls' = hCalls + 1
      /\ hCall'.handler = "host_request_ball" ) =>
        /\ ( hCall'.commander # hostID \/ p_value # GamePhaseCalling ) =>
               /\ hCall'.err
               /\ UNCHANGED <<called, uncalled, hEvents>>
        /\ ~hCall'.err =>
               /\ Len(uncalled) > 0
               /\ uncalled' = SubSeq(uncalled, 1, Len(uncalled) - 1)
               /\ called' = Append(called, uncalled[Len(uncalled)])
               /\ Len(hEvents') = Len(hEvents) + 1
               /\ hEvents'[Len(hEvents')].Type = EventTypeUpdate
               /\ hEvents'[Len(hEvents')].RecipientIDs = {}

\* C27: host_request_ball draws a ball only when the commander is the host
\* and the phase is Calling; otherwise it returns an error, leaves the ball
\* registry unchanged and broadcasts nothing; on success one ball moves from
\* uncalled to called and one Update event with empty RecipientIDs is
\* dispatched.
C27_HostRequestBall == [][HostRequestBallStep]_vars

(***************************************************************************)
(* C21 CheckOutCard and ReturnCard called while the registry is idle       *)
(* (never started) or terminated return an error at once and leave the     *)
(* registered entries and the return channel as they were.                 *)
(***************************************************************************)
RefusedCallStep ==
    /\ (coCount' = coCount + 1
           /\ status \in { cardGenStatusIdle, cardGenStatusTerminated })
       => /\ coPc' = coPc
          /\ \E t \in CardThreads : coResult'[t].err /\ coPc'[t] = "idle"
          /\ \A t \in CardThreads : coResult'[t] # coResult[t] => coResult'[t].err
          /\ registeredEntries' = registeredEntries
          /\ heldCards' = heldCards
    /\ (rcCalls' = rcCalls + 1
           /\ status \in { cardGenStatusIdle, cardGenStatusTerminated })
       => /\ rcPc' = rcPc
          /\ \E t \in CardThreads : rcResult'[t] = [err |-> TRUE, status |-> status]
          /\ \A t \in CardThreads : rcResult'[t] # rcResult[t] => rcResult'[t].err
          /\ registeredEntries' = registeredEntries
          /\ returnChan' = returnChan

C22_AtMostOneWorker ==
    Cardinality({ w \in 1..Len(workerPc) : workerPc[w] \in { "select", "exit" } }) <= 1

(***************************************************************************)
(* C34                                                                     *)
(***************************************************************************)
\* One SyncManualCall, seen by its result: with the ball in uncalled it
\* succeeds, uncalled loses that ball and keeps the order of the others, and
\* called gains it at its end; otherwise it fails and both stay as they were.
SyncManualCallStep ==
    ( /\ ballResult'.op = "SyncManualCall"
      /\ (ballResult' # ballResult \/ drawn' # drawn) ) =>
        IF ballResult'.ball \in SeqRange(uncalled)
        THEN /\ ~ballResult'.err
             /\ uncalled' = SelectSeq(uncalled, LAMBDA b : b # ballResult'.ball)
             /\ Len(uncalled') = Len(uncalled) - 1
             /\ called' = Append(called, ballResult'.ball)
        ELSE /\ ballResult'.err
             /\ uncalled' = uncalled
             /\ called' = called

\* C34: SyncManualCall(b) succeeds exactly when b is in uncalled; it then
\* removes b from uncalled, keeping the order of the remaining balls, and
\* appends b to called; when b is not in uncalled (called already, or the
\* free space 0) it returns an error and changes neither sequence.
C34_SyncManualCall == [][SyncManualCallStep]_vars

\* A manual call took a ball out of the middle of uncalled, and a second
\* manual call of the same ball was refused.
C34_Witness ==
    /\ ballResult.op = "SyncManualCall"
    /\ ballResult.err
    /\ called # << >>
    /\ called[Len(called)] = ballResult.ball
    /\ shufflerDraws = NumBalls - 1
    /\ Len(uncalled) >= 2
    /\ uncalled # SubSeq(freshUncalled, 1, Len(uncalled))

(***************************************************************************)
(* C32                                                                     *)
(***************************************************************************)
\* C32: while generateUniqueEntry is in its loop, every grid of the generator
\* whose overlap with each registered entry, taken separately, is at most 16
\* passes the test of the loop and is accepted.
C32_RejectsOnlySingleOverlap ==
    \A g \in Generators :
        genPc[g] = "loop" =>
            \A newCells \in generateCells :
                (\A n \in 1..Len(registeredEntries) :
                     conflictsWith(registeredEntries[n].cells, newCells) <= 16)
                => cellConflicts(registeredEntries, newCells) <= uniquenessThreshold

(***************************************************************************)
(* C33                                                                     *)
(***************************************************************************)
inactiveEntries(entries) ==
    Cardinality({ n \in 1..Len(entries) : ~entries[n].active })

\* The step by which an equalizeEntrySurplus called by the worker returns,
\* with no CheckOutCard inside the registry and no returned card on its way.
EqualizeFinishStep ==
    ( /\ eqMode = "tick"
      /\ eqPc # "off"
      /\ eqPc' = "off"
      /\ \A t \in CardThreads : coPc[t] = "idle"
      /\ returnChan = << >>
      /\ wCard = 0 ) =>
        /\ inactiveEntries(registeredEntries') >= minEntrySurplus
        /\ inactiveEntries(registeredEntries') <= maxEntrySurplus

\* C33: each time the worker's surplus equalization finishes with no checkout
\* or return running, the number of inactive entries is at least
\* minEntrySurplus and at most maxEntrySurplus.
C33_SurplusWithinBounds == [][EqualizeFinishStep]_vars

(***************************************************************************)
(* C31                                                                     *)
(***************************************************************************)
\* A goroutine is in the loop of generateUniqueEntry and the generator has
\* no grid that passes the test of the loop (the case of C32).
generationStuck ==
    \E g \in Generators :
        /\ genPc[g] = "loop"
        /\ \A newCells \in generateCells :
               cellConflicts(registeredEntries, newCells) > uniquenessThreshold

\* C31: after the cleanup callback has been called, the worker eventually
\* exits and the status becomes terminated, also when the worker was handling
\* a returned card or equalizing the surplus at the moment of the call.  A
\* generateUniqueEntry that finds no grid any more is left aside.
C31_CleanupTerminates ==
    (cleanupCalls > 0) ~> (status = cardGenStatusTerminated \/ generationStuck)

(***************************************************************************)
(* C36                                                                     *)
(***************************************************************************)
\* A call of one of the two daub handlers made in a phase other than
\* Calling, ConfirmingBingo and Tiebreaker returns an error and leaves every
\* cell of every card as it was.
DaubPhaseStep ==
    ( /\ hCalls' = hCalls + 1
      /\ hCall'.handler \in { "player_daub", "player_undo_daub" }
      /\ p_value \notin { GamePhaseCalling, GamePhaseConfirmingBingo,
                          GamePhaseTiebreaker } ) =>
        /\ hCall'.err
        /\ cardPlayers' = cardPlayers

\* C36: player_daub and player_undo_daub are accepted only in the phases
\* Calling, ConfirmingBingo and Tiebreaker; in every other phase they return
\* an error and change no cell of any card.
C36_DaubPhases == [][DaubPhaseStep]_vars

(***************************************************************************)
(* C37                                                                     *)
(***************************************************************************)
\* The step by which JoinGame returns the error of a failed CheckOutCard:
\* the roster stays as it was, and every card checked out earlier in the
\* call is on its way back to the registry or inactive there.
JoinCheckoutFailedStep ==
    \A t \in JoinThreads :
        ( /\ joinPc[t] = "await"
          /\ joinPc'[t] = "idle"
          /\ joinResult'[t].err ) =>
            /\ cardPlayerEntries' = cardPlayerEntries
            /\ \A k \in 1..Len(joinCards[t]) :
                   \/ joinCards[t][k] \in SeqRange(returnChan')
                   \/ \A n \in 1..Len(registeredEntries') :
                          registeredEntries'[n].id = joinCards[t][k]
                              => ~registeredEntries'[n].active

\* C37: when a card checkout fails during JoinGame, JoinGame returns an error
\* and leaves the game as it was: the player is not in the roster and no card
\* checked out for them earlier in the same call stays active in the registry.
C37_FailedJoinLeavesNothing == [][JoinCheckoutFailedStep]_vars

(***************************************************************************)
(* C35                                                                     *)
(***************************************************************************)
\* The step by which processHandReplacement returns for a player of the
\* roster: the hand holds MaxCards cards, none of them a card of the hand
\* the command found, and each of those has been passed back to the registry.
HandReplacedStep ==
    ( /\ hrPc = "dispatching"
      /\ hrPc' = "idle" ) =>
        LET hand == handOf(cardPlayerEntries', hrPlayer)
        IN /\ Len(hand) = MaxCards
           /\ \A k \in 1..Len(hand) : hand[k] \notin SeqRange(hrBefore)
           /\ \A k \in 1..Len(hrBefore) :
                  \A held \in heldCards' : held[1] # hrBefore[k]
           /\ ~hrResult'.err

\* C35: after a player_replace_cards command the player's hand consists of
\* exactly the MaxCards newly checked-out cards; every card held before has
\* been returned to the registry and is no longer in the hand, also for a
\* player who held MaxCards cards.
C35_HandReplaced == [][HandReplacedStep]_vars

(***************************************************************************)
(* C38                                                                     *)
(***************************************************************************)
\* The player an active entry is checked out to: the last of prevPlayerIDs
holderOf(entry) ==
    IF entry.active /\ entry.prevPlayerIDs # << >>
    THEN entry.prevPlayerIDs[Len(entry.prevPlayerIDs)]
    ELSE "none"

\* A step by which CheckOutCard hands out a card: before the step the card's
\* entry was not active for another player, that is, no other player had it
\* checked out with its return not yet processed by the worker.
CheckOutExclusiveStep ==
    \A t \in CardThreads :
        ( /\ coPc[t] \in { "recycle", "activate" }
          /\ coPc'[t] = "idle"
          /\ ~coResult'[t].err ) =>
            \A i \in 1..Len(registeredEntries) :
                registeredEntries[i].id = coResult'[t].card =>
                    holderOf(registeredEntries[i]) \in { "none", coPlayer[t] }

\* C38: between the checkout of an entry and the processing of its return no
\* other CheckOutCard returns a card with the same ID, also when a recycling
\* checkout runs together with a checkout that generates its entry or with
\* the worker's pruning.
C38_NoDoubleCheckOut == [][CheckOutExclusiveStep]_vars

(***************************************************************************)
(* C39                                                                     *)
(***************************************************************************)
\* C39: no goroutine sends on a channel that has been closed; in particular
\* no ReturnCard call executes its send on returnChan after an exiting
\* worker has closed that channel.
C39_NoSendOnClosedReturnChan ==
    \A t \in CardThreads : rcPc[t] # "panic"

(***************************************************************************)
(* C40                                                                     *)
(***************************************************************************)
\* A mutex is locked and no operation that can still go on holds it: its
\* holder has returned, or waits for the same mutex.
smMtxLeftHeld ==
    smMtx # 0 /\ lkPc[smMtx] \in { "idle", "relock" }

gameMtxLeftHeld ==
    g_mtx # 0 /\ lkPc[g_mtx] = "relockGame"

\* C40: every operation releases each lock it acquired, with the matching
\* kind of release, on every return path and across nested calls: Status
\* does not end in a mismatched release, and neither sm.mtx nor g.mtx is left
\* locked by dispatchEvent for an unknown phase or by SubscribeToAllEvents.
C40_LocksReleased ==
    /\ \A t \in LockThreads : lkPc[t] # "fatal"
    /\ ~smMtxLeftHeld
    /\ ~gameMtxLeftHeld

====
